---- MODULE Spec2Model ----
(***************************************************************************)
(* Verification model of the mm_bt ingest pipeline: the L2 row batcher     *)
(* (ingest/l2_batcher.py), the fixed-point quantizer (core/fixedpoint.py), *)
(* the binary event log writer/reader (evlog/) and the compiler            *)
(* (ingest/compiler.py).                                                   *)
(*                                                                         *)
(* Python's Optional values are modelled as sequences of length <= 1:      *)
(* None is <<>> and a present value v is <<v>>.                            *)
(***************************************************************************)
EXTENDS Integers, Sequences, FiniteSets, TLC

VARIABLES
    failure_policy,     \* iter_l2_batches argument
    quarantine_action,  \* iter_l2_batches argument
    rows,               \* the rows the generator has consumed so far, in order
    gen,                \* the generator frame of iter_l2_batches (locals, yields, sink)
    file,               \* bytes of the .evlog file
    wr,                 \* EvlogWriter: "new", "open", "closed", "raised"
    written,            \* batches accepted by write_l2_batch, in order
    rd,                 \* EvlogReader: "new", "open", "eof", "raised", "closed"
    rpos,               \* EvlogReader file position
    got,                \* batches yielded by EvlogReader.iter_l2_batches
    entries,            \* compile_l2_csv: the IndexEntry list
    idx,                \* bytes of the .idx file (None until written)
    compile,            \* compile_l2_csv: "idle", "streaming", "ok", or the error raised
    rindex,             \* EvlogReader._index (None without an index)
    sought,             \* argument of the last EvlogReader.seek_time call, if any
    book,               \* the BookPy object (None before construction)
    bcall,              \* the last call made on the book: operation, arguments, outcome
    config,             \* run_backtest: the RunConfig and the fee model
    strategy,           \* run_backtest: the strategy object and its state
    bt,                 \* the frame of run_backtest (locals, outcome)
    call,               \* a call of a pure function: name, arguments, result
    inputs,             \* compile_l2_csv: the rows each input CSV file holds now
    hashed,             \* compile_l2_csv: input_entries, the hashes taken at line 152
    manifest,           \* the manifest file (None until written)
    first,              \* the outputs of an earlier execution on the same inputs
    scope               \* a with statement over a writer or reader, and the open handles

vars == <<failure_policy, quarantine_action, rows, gen, file, wr, written,
          rd, rpos, got, entries, idx, compile, rindex, sought, book, bcall,
          config, strategy, bt, call, inputs, hashed, manifest, first,
          scope>>

batcherVars == <<failure_policy, quarantine_action, rows, gen>>
evlogVars == <<file, wr, written, rd, rpos, got>>
compileVars == <<entries, idx, compile>>
seekVars == <<rindex, sought>>
bookVars == <<book, bcall>>
simVars == <<config, strategy, bt>>
calcVars == <<call>>
pipeVars == <<inputs, hashed, manifest, first>>
scopeVars == <<scope>>

None == <<>>
Some(v) == <<v>>

-----------------------------------------------------------------------------
(* Bounds of the model *)

\* longest row stream fed to the batcher
MaxRows == 3
\* local_timestamp_us ranges over 1..MaxLocalTs
MaxLocalTs == 3

-----------------------------------------------------------------------------
(* core/types.py, core/config.py *)

BID == 0
ASK == 1

HARD_FAIL == "hard_fail"
QUARANTINE == "quarantine"
FailurePolicy == {HARD_FAIL, QUARANTINE}

HALT == "halt"
SKIP_ROW == "skip_row"
SKIP_BATCH == "skip_batch"
QuarantineAction == {HALT, SKIP_ROW, SKIP_BATCH}

-----------------------------------------------------------------------------
(* core/decimal_ctx.py, core/fixedpoint.py                                 *)
(* A decimal literal is [kind |-> "num", coef, exp] for coef * 10^exp, or  *)
(* [kind |-> "invalid"] for a string Decimal() does not parse.             *)

Dec(c, e) == [kind |-> "num", coef |-> c, exp |-> e]
InvalidDecimal == [kind |-> "invalid"]

RECURSIVE Pow10(_)
Pow10(n) == IF n <= 0 THEN 1 ELSE 10 * Pow10(n - 1)

Ok(v) == [ok |-> TRUE, value |-> v]
Err(e) == [ok |-> FALSE, error |-> e]

\* value.scaleb(scale), required to be integral
_scaled_int(value, scale) ==
    LET e == value.exp + scale IN
    IF e >= 0 THEN Ok(value.coef * Pow10(e))
    ELSE IF value.coef % Pow10(-e) = 0 THEN Ok(value.coef \div Pow10(-e))
    ELSE Err("value has more precision than increment")

\* DECIMAL_CTX rounds to 50 significant digits, half to even; the model
\* keeps the rounding and scales the precision down to DecimalPrec digits
DecimalPrec == 3

RECURSIVE Digits(_)
\* the number of decimal digits of n > 0
Digits(n) == IF n < 10 THEN 1 ELSE 1 + Digits(n \div 10)

RECURSIVE StripZeros(_)
\* the trailing zeros of the coefficient moved into the exponent
StripZeros(value) ==
    IF value.coef # 0 /\ value.coef % 10 = 0
    THEN StripZeros(Dec(value.coef \div 10, value.exp + 1))
    ELSE value

\* coef / p rounded to an integer, half to even (ROUND_HALF_EVEN)
RoundHalfEven(coef, p) ==
    IF (coef % p) * 2 > p \/ ((coef % p) * 2 = p /\ (coef \div p) % 2 = 1)
    THEN coef \div p + 1
    ELSE coef \div p

\* value with its last drop digits rounded away
RoundOff(value, drop) == Dec(RoundHalfEven(value.coef, Pow10(drop)), value.exp + drop)

\* value.normalize() in DECIMAL_CTX, for value > 0: the coefficient is
\* rounded to the context's precision, then trailing zeros are stripped
normalize(value) ==
    IF Digits(value.coef) <= DecimalPrec THEN StripZeros(value)
    ELSE StripZeros(RoundOff(value, Digits(value.coef) - DecimalPrec))

_quantize_decimal(value, increment, allow_zero) ==
    IF value.coef = 0 THEN
        IF allow_zero THEN Ok(0) ELSE Err("must be positive")
    ELSE IF value.coef < 0 THEN Err("must be non-negative")
    ELSE
        LET scale == -increment.exp
            scaled_value == _scaled_int(normalize(value), scale)
            scaled_inc == _scaled_int(increment, scale)
        IN  IF ~scaled_value.ok THEN scaled_value
            ELSE IF ~scaled_inc.ok THEN scaled_inc
            ELSE IF scaled_inc.value = 0 THEN Err("increment underflow")
            ELSE IF scaled_value.value % scaled_inc.value # 0
                 THEN Err("not a multiple of increment")
            ELSE Ok(scaled_value.value \div scaled_inc.value)

\* the quantizer of the model: price_increment = 0.5, amount_increment = 1
price_increment == Dec(5, -1)
amount_increment == Dec(1, 0)

quantize_price(value) ==
    IF value.kind = "invalid" THEN Err("invalid decimal")
    ELSE _quantize_decimal(value, price_increment, FALSE)

quantize_amount(value) ==
    IF value.kind = "invalid" THEN Err("invalid decimal")
    ELSE _quantize_decimal(value, amount_increment, TRUE)

-----------------------------------------------------------------------------
(* ingest/quarantine.py *)

QuarantineRecord(reason, source, line_number, payload) ==
    [reason |-> reason, source |-> source, line_number |-> line_number,
     payload |-> payload]

\* mutant: the policy is not consulted
record_quarantine_AnyPolicy(policy, sink, record) ==
    IF sink # None THEN Some(Append(sink[1], record)) ELSE sink

\* sink is None or Some(list of records): ListQuarantineSink.record appends
record_quarantine(policy, sink, record) ==
    IF policy = QUARANTINE /\ sink # None
    THEN Some(Append(sink[1], record))
    ELSE sink

-----------------------------------------------------------------------------
(* ingest/l2_batcher.py                                                    *)
(* The generator frame is a record: the locals of iter_l2_batches, the     *)
(* batches yielded so far (yielded), the sink passed as quarantine_sink,   *)
(* and the exception that ended the iteration (raised, None while it       *)
(* runs), with done set when the generator returned normally.              *)

L2Update(side, price_ticks, amount_lots, is_snapshot) ==
    [side |-> side, price_ticks |-> price_ticks, amount_lots |-> amount_lots,
     is_snapshot |-> is_snapshot]

L2Batch(ts_recv_ns, ts_exch_ns, resets_book, updates) ==
    [ts_recv_ns |-> ts_recv_ns, ts_exch_ns |-> ts_exch_ns,
     resets_book |-> resets_book, updates |-> updates]

GenInit(sink) ==
    [prev_local_ts |-> None,
     prev_is_snapshot |-> FALSE,
     expected_exchange |-> None,
     expected_symbol |-> None,
     last_source |-> None,
     batch_local_ts |-> None,
     batch_is_snapshot |-> None,
     batch_resets_book |-> None,
     batch_ts_exch_us |-> None,
     updates |-> <<>>,
     skip_batch |-> FALSE,
     yielded |-> <<>>,
     quarantine_sink |-> sink,
     raised |-> None,
     done |-> FALSE]

\* mutant: HARD_FAIL no longer raises by itself
_handle_error_HaltOnly(s, exc, reason, policy, action, source, line_number, payload) ==
    [s EXCEPT
       !.quarantine_sink =
           record_quarantine(policy, @,
               QuarantineRecord(reason, source, line_number, payload)),
       !.raised = IF action = HALT THEN Some(exc) ELSE None]

\* _handle_error: record, then raise under HARD_FAIL or HALT, else return action
_handle_error(s, exc, reason, policy, action, source, line_number, payload) ==
    [s EXCEPT
       !.quarantine_sink =
           record_quarantine(policy, @,
               QuarantineRecord(reason, source, line_number, payload)),
       !.raised = IF policy = HARD_FAIL \/ action = HALT THEN Some(exc) ELSE None]

\* mutant: the batch keeps the exchange timestamp of its first row
AppendUpdate_FirstExchTs(s, row, price_ticks, amount_lots) ==
    [s EXCEPT
       !.updates = Append(@, L2Update(row.side, price_ticks, amount_lots,
                                      row.is_snapshot)),
       !.batch_ts_exch_us = IF @ = None THEN Some(row.timestamp_us) ELSE @,
       !.prev_local_ts = Some(row.local_timestamp_us)]

\* lines 207-216: the row is accepted into the current batch
AppendUpdate(s, row, price_ticks, amount_lots) ==
    [s EXCEPT
       !.updates = Append(@, L2Update(row.side, price_ticks, amount_lots,
                                      row.is_snapshot)),
       !.batch_ts_exch_us = Some(row.timestamp_us),
       !.prev_local_ts = Some(row.local_timestamp_us)]

\* the SKIP_ROW branch taken after a quarantined row (lines 89-91, 174-176, 197-199)
SkipRow(s, row) ==
    [s EXCEPT !.prev_local_ts = Some(row.local_timestamp_us)]

\* the SKIP_BATCH branch of the in-batch checks (lines 177-182, 200-205)
SkipBatch(s, row) ==
    [s EXCEPT !.skip_batch = TRUE,
              !.updates = <<>>,
              !.batch_ts_exch_us = None,
              !.prev_local_ts = Some(row.local_timestamp_us)]

\* the SKIP_BATCH branch of the exchange/symbol check (lines 92-99)
SkipBatchMismatch(s, row) ==
    [s EXCEPT !.batch_local_ts =
                  IF @ = None THEN Some(row.local_timestamp_us) ELSE @,
              !.skip_batch = TRUE,
              !.updates = <<>>,
              !.batch_ts_exch_us = None,
              !.prev_local_ts = Some(row.local_timestamp_us)]

\* lines 184-216: quantize, then append
QuantizeStage(s, row, policy, action) ==
    LET p == quantize_price(row.price)
        a == quantize_amount(row.amount)
    IN  IF p.ok /\ a.ok THEN AppendUpdate(s, row, p.value, a.value)
        ELSE
          LET h == _handle_error(s, "QuantizationError",
                       IF p.ok THEN a.error ELSE p.error,
                       policy, action, row.source, row.line_number, row)
          IN  IF h.raised # None THEN h
              ELSE IF action = SKIP_ROW THEN SkipRow(h, row)
              ELSE IF action = SKIP_BATCH THEN SkipBatch(h, row)
              ELSE h

\* mutant: the is_snapshot check is skipped
SnapshotStage_NoCheck(s, row, policy, action) ==
    QuantizeStage(s, row, policy, action)

\* lines 162-182: is_snapshot is constant within a batch
SnapshotStage(s, row, policy, action) ==
    IF s.batch_is_snapshot # None /\ row.is_snapshot # s.batch_is_snapshot[1]
    THEN
      LET h == _handle_error(s, "SchemaError",
                   "mixed is_snapshot values within a local_timestamp batch",
                   policy, action, row.source, row.line_number, row)
      IN  IF h.raised # None THEN h
          ELSE IF action = SKIP_ROW THEN SkipRow(h, row)
          ELSE IF action = SKIP_BATCH THEN SkipBatch(h, row)
          ELSE QuantizeStage(h, row, policy, action)
    ELSE QuantizeStage(s, row, policy, action)

\* bool(x) of an Optional[bool]
Bool(opt) == opt # None /\ opt[1]

\* mutant: the previous batch is not consulted
ResetsBook_IgnorePrev(prev_is_snapshot, is_snapshot) == is_snapshot

\* (not prev_is_snapshot) and row.is_snapshot (lines 130, 158)
ResetsBook(prev_is_snapshot, is_snapshot) == (~prev_is_snapshot) /\ is_snapshot

\* ts_recv_ns / ts_exch_ns of a yielded batch (lines 150-151, 232-233)
TsRecvNs(batch_local_ts) == batch_local_ts * 1000
TsExchNs(batch_ts_exch_us) == batch_ts_exch_us * 1000

\* lines 149-155: yield the current batch
YieldBatch(s) ==
    [s EXCEPT
       !.yielded = Append(@, L2Batch(TsRecvNs(s.batch_local_ts[1]),
                                     TsExchNs(s.batch_ts_exch_us[1]),
                                     Bool(s.batch_resets_book),
                                     s.updates)),
       !.prev_is_snapshot = Bool(s.batch_is_snapshot)]

\* lines 156-160: open the batch of the row's timestamp
OpenBatch(s, row) ==
    [s EXCEPT !.batch_local_ts = Some(row.local_timestamp_us),
              !.batch_is_snapshot = Some(row.is_snapshot),
              !.batch_resets_book =
                  Some(ResetsBook(s.prev_is_snapshot, row.is_snapshot)),
              !.batch_ts_exch_us = None,
              !.updates = <<>>]

\* lines 127-160: batch boundary
BoundaryStage(s, row, policy, action) ==
    IF s.batch_local_ts = None THEN
        SnapshotStage(
            [s EXCEPT !.batch_local_ts = Some(row.local_timestamp_us),
                      !.batch_is_snapshot = Some(row.is_snapshot),
                      !.batch_resets_book =
                          Some(ResetsBook(s.prev_is_snapshot, row.is_snapshot))],
            row, policy, action)
    ELSE IF row.local_timestamp_us # s.batch_local_ts[1] THEN
        LET h == IF s.updates # <<>> /\ s.batch_ts_exch_us = None
                 THEN _handle_error(s, "SchemaError",
                          "missing exchange timestamp in batch",
                          policy, action, row.source, row.line_number, row)
                 ELSE s
            c == IF s.updates # <<>> /\ s.batch_ts_exch_us = None
                    /\ h.raised = None /\ action \in {SKIP_ROW, SKIP_BATCH}
                 THEN [h EXCEPT !.updates = <<>>]
                 ELSE h
            y == IF c.updates # <<>> THEN YieldBatch(c) ELSE c
        IN  IF h.raised # None THEN h
            ELSE SnapshotStage(OpenBatch(y, row), row, policy, action)
    ELSE SnapshotStage(s, row, policy, action)

\* lines 116-125: rows of a batch being skipped
SkipStage(s, row, policy, action) ==
    IF s.skip_batch THEN
        IF s.batch_local_ts # None /\ row.local_timestamp_us = s.batch_local_ts[1]
        THEN [s EXCEPT !.prev_local_ts = Some(row.local_timestamp_us)]
        ELSE BoundaryStage(
                 [s EXCEPT !.skip_batch = FALSE,
                           !.batch_local_ts = None,
                           !.batch_is_snapshot = None,
                           !.batch_resets_book = None,
                           !.batch_ts_exch_us = None,
                           !.updates = <<>>],
                 row, policy, action)
    ELSE BoundaryStage(s, row, policy, action)

\* the comparison of line 101
Decreased(row, prev_local_ts) ==
    prev_local_ts # None /\ row.local_timestamp_us < prev_local_ts[1]

\* lines 101-114: local_timestamp_us is non-decreasing
OrderingStage(s, row, policy, action) ==
    IF Decreased(row, s.prev_local_ts) THEN
      LET h == _handle_error(s, "OrderingError", "local_timestamp decreased",
                   policy, action, row.source, row.line_number, row)
      IN  IF h.raised # None THEN h
          ELSE IF action \in {SKIP_ROW, SKIP_BATCH} THEN h
          ELSE SkipStage(h, row, policy, action)
    ELSE SkipStage(s, row, policy, action)

\* the comparison of line 76
Mismatch(row, expected_exchange, expected_symbol) ==
    row.exchange # expected_exchange[1] \/ row.symbol # expected_symbol[1]

\* lines 70-216: one iteration of the for loop
LoopBody(s0, row, policy, action) ==
    LET s == [s0 EXCEPT !.last_source = Some(row.source)] IN
    IF s.expected_exchange = None THEN
        OrderingStage([s EXCEPT !.expected_exchange = Some(row.exchange),
                                !.expected_symbol = Some(row.symbol)],
                      row, policy, action)
    ELSE IF Mismatch(row, s.expected_exchange, s.expected_symbol) THEN
      LET h == _handle_error(s, "SchemaError", "mixed exchange/symbol in stream",
                   policy, action, row.source, row.line_number, row)
      IN  IF h.raised # None THEN h
          ELSE IF action = SKIP_ROW THEN SkipRow(h, row)
          ELSE IF action = SKIP_BATCH THEN SkipBatchMismatch(h, row)
          ELSE OrderingStage(h, row, policy, action)
    ELSE OrderingStage(s, row, policy, action)

\* lines 218-236: the input is exhausted
Finish(s, policy, action) ==
    IF s.batch_local_ts # None /\ s.updates # <<>> THEN
        IF s.batch_ts_exch_us = None THEN
            LET h == _handle_error(s, "SchemaError",
                         "missing exchange timestamp in batch", policy, action,
                         IF s.last_source = None THEN "" ELSE s.last_source[1],
                         0, None)
            IN  [h EXCEPT !.done = (h.raised = None)]
        ELSE
            [s EXCEPT
               !.yielded = Append(@, L2Batch(TsRecvNs(s.batch_local_ts[1]),
                                             TsExchNs(s.batch_ts_exch_us[1]),
                                             Bool(s.batch_resets_book),
                                             s.updates)),
               !.done = TRUE]
    ELSE [s EXCEPT !.done = TRUE]

\* iter_l2_batches run to completion over a finite row sequence
RECURSIVE Feed(_, _, _, _)
Feed(s, rs, policy, action) ==
    IF s.raised # None THEN s
    ELSE IF rs = <<>> THEN Finish(s, policy, action)
    ELSE Feed(LoopBody(s, Head(rs), policy, action), Tail(rs), policy, action)

IterL2Batches(rs, policy, action, sink) ==
    Feed(GenInit(sink), rs, policy, action)


-----------------------------------------------------------------------------
(* evlog/format.py: the binary layout.  A file is a sequence of bytes      *)
(* (0..255); all integers are little-endian.  The values of the model fit  *)
(* in 31 bits, so the int64/u32/u64 range checks of the writer             *)
(* (_require_int64, update_count, exchange_id, symbol_id) always pass and  *)
(* are not modelled.                                                       *)

VERSION == 1
ENDIAN_LITTLE == 1
HEADER_BASE_SIZE == 16
HEADER_V1_EXTRA_SIZE == 48
HEADER_V1_SIZE == HEADER_BASE_SIZE + HEADER_V1_EXTRA_SIZE
RECORD_HEADER_SIZE == 8
L2_BATCH_HEADER_SIZE == 24
L2_UPDATE_SIZE == 24
RecordType_L2_BATCH == 1

\* b"MMEVLOG\x00"
MAGIC == <<77, 77, 69, 86, 76, 79, 71, 0>>

\* struct.pack of a non-negative integer into n little-endian bytes
RECURSIVE PackLE(_, _)
PackLE(v, n) == IF n = 0 THEN <<>> ELSE <<v % 256>> \o PackLE(v \div 256, n - 1)

\* struct.unpack of an unsigned little-endian integer
RECURSIVE UnpackLE(_)
UnpackLE(bytes) ==
    IF bytes = <<>> THEN 0 ELSE Head(bytes) + 256 * UnpackLE(Tail(bytes))

\* struct.unpack of a signed 64-bit integer ("q"): the sign bit set means a
\* negative value, which every reader of the format rejects as such
UnpackQ(bytes) == IF bytes[8] >= 128 THEN -1 ELSE UnpackLE(bytes)

Zeros(n) == [i \in 1..n |-> 0]

Min(a, b) == IF a <= b THEN a ELSE b

\* f.read(n) at position pos: short at the end of the file
Read(f, pos, n) == SubSeq(f, pos + 1, Min(pos + n, Len(f)))

\* pack_header, with quantizer_hash None or Some(32 bytes)
pack_header(flags, exchange_id, symbol_id, quantizer_hash) ==
    LET qh == IF quantizer_hash = None THEN Zeros(32) ELSE quantizer_hash[1] IN
    IF Len(qh) # 32 THEN Err("SchemaError")
    ELSE IF exchange_id < 0 THEN Err("SchemaError")
    ELSE IF symbol_id < 0 THEN Err("SchemaError")
    ELSE Ok(MAGIC \o <<VERSION, ENDIAN_LITTLE>> \o PackLE(flags, 2) \o PackLE(0, 4)
            \o PackLE(exchange_id, 8) \o PackLE(symbol_id, 8) \o qh)

\* read_header at position 0: Ok(position after the header) or Err
read_header(f) ==
    LET base == Read(f, 0, HEADER_BASE_SIZE) IN
    IF base = <<>> THEN Err("SchemaError")
    ELSE IF Len(base) # HEADER_BASE_SIZE THEN Err("SchemaError")
    ELSE
      LET magic == SubSeq(base, 1, 8)
          version == base[9]
          endian == base[10]
          reserved == UnpackLE(SubSeq(base, 13, 16))
      IN  IF magic # MAGIC THEN Err("SchemaError")
          ELSE IF version = 0 THEN
              IF endian # ENDIAN_LITTLE THEN Err("SchemaError")
              ELSE IF reserved # 0 THEN Err("SchemaError")
              ELSE Ok(HEADER_BASE_SIZE)
          ELSE IF version # VERSION THEN Err("SchemaError")
          ELSE IF Len(Read(f, HEADER_BASE_SIZE, HEADER_V1_EXTRA_SIZE))
                    # HEADER_V1_EXTRA_SIZE THEN Err("SchemaError")
          ELSE IF endian # ENDIAN_LITTLE THEN Err("SchemaError")
          ELSE IF reserved # 0 THEN Err("SchemaError")
          ELSE Ok(HEADER_V1_SIZE)

\* unpack_record_header: Ok(<<rec_type, length>>) or Err
unpack_record_header(data) ==
    IF Len(data) # RECORD_HEADER_SIZE THEN Err("SchemaError")
    ELSE IF data[2] # 0 THEN Err("SchemaError")
    ELSE IF UnpackLE(SubSeq(data, 3, 4)) # 0 THEN Err("SchemaError")
    ELSE Ok(<<data[1], UnpackLE(SubSeq(data, 5, 8))>>)

-----------------------------------------------------------------------------
(* evlog/writer.py *)

\* mutant: price_ticks and amount_lots are packed in the other order
PackL2Update_Swapped(update) ==
    <<update.side, IF update.is_snapshot THEN 1 ELSE 0>> \o PackLE(0, 2)
      \o PackLE(update.amount_lots, 8) \o PackLE(update.price_ticks, 8)
      \o PackLE(0, 4)

\* lines 108-118: struct.pack_into(L2_UPDATE_FMT, ...)
PackL2Update(update) ==
    <<update.side, IF update.is_snapshot THEN 1 ELSE 0>> \o PackLE(0, 2)
      \o PackLE(update.price_ticks, 8) \o PackLE(update.amount_lots, 8)
      \o PackLE(0, 4)

\* lines 96-119: validate and pack the updates in order; the first invalid
\* update raises
RECURSIVE PackUpdates(_)
PackUpdates(updates) ==
    IF updates = <<>> THEN Ok(<<>>)
    ELSE
      LET update == Head(updates) IN
      IF update.side \notin {BID, ASK} THEN Err("SchemaError")
      ELSE IF update.price_ticks <= 0 THEN Err("SchemaError")
      ELSE IF update.amount_lots < 0 THEN Err("SchemaError")
      ELSE LET rest == PackUpdates(Tail(updates)) IN
           IF rest.ok THEN Ok(PackL2Update(update) \o rest.value) ELSE rest

\* write_l2_batch on an open writer: Ok(the bytes appended) or Err
write_l2_batch(batch) ==
    IF batch.ts_recv_ns < 0 \/ batch.ts_exch_ns < 0 THEN Err("SchemaError")
    ELSE
      LET update_count == Len(batch.updates)
          payload_len == L2_BATCH_HEADER_SIZE + update_count * L2_UPDATE_SIZE
          packed == PackUpdates(batch.updates)
      IN  IF payload_len % 8 # 0 THEN Err("SchemaError")
          ELSE IF ~packed.ok THEN packed
          ELSE Ok(<<RecordType_L2_BATCH, 0>> \o PackLE(0, 2) \o PackLE(payload_len, 4)
                  \o PackLE(batch.ts_recv_ns, 8) \o PackLE(batch.ts_exch_ns, 8)
                  \o <<IF batch.resets_book THEN 1 ELSE 0>> \o Zeros(3)
                  \o PackLE(update_count, 4)
                  \o packed.value)

-----------------------------------------------------------------------------
(* evlog/reader.py *)

\* lines 43-65: decode the updates at offset, update_count of them
RECURSIVE DecodeUpdates(_, _, _)
DecodeUpdates(payload, offset, update_count) ==
    IF update_count = 0 THEN Ok(<<>>)
    ELSE
      LET side_value == payload[offset + 1]
          is_snapshot == payload[offset + 2]
          r16 == UnpackLE(SubSeq(payload, offset + 3, offset + 4))
          price_ticks == UnpackQ(SubSeq(payload, offset + 5, offset + 12))
          amount_lots == UnpackQ(SubSeq(payload, offset + 13, offset + 20))
          r32 == UnpackLE(SubSeq(payload, offset + 21, offset + 24))
      IN  IF r16 # 0 \/ r32 # 0 THEN Err("SchemaError")
          ELSE IF side_value \notin {BID, ASK} THEN Err("SchemaError")
          ELSE IF is_snapshot \notin {0, 1} THEN Err("SchemaError")
          ELSE IF price_ticks <= 0 THEN Err("SchemaError")
          ELSE IF amount_lots < 0 THEN Err("SchemaError")
          ELSE
            LET rest == DecodeUpdates(payload, offset + L2_UPDATE_SIZE,
                                      update_count - 1)
            IN  IF rest.ok
                THEN Ok(<<L2Update(side_value, price_ticks, amount_lots,
                                   is_snapshot = 1)>> \o rest.value)
                ELSE rest

\* _decode_l2_payload: Ok(batch) or Err
_decode_l2_payload(payload) ==
    IF Len(payload) < L2_BATCH_HEADER_SIZE THEN Err("SchemaError")
    ELSE
      LET ts_recv_ns == UnpackQ(SubSeq(payload, 1, 8))
          ts_exch_ns == UnpackQ(SubSeq(payload, 9, 16))
          resets_book == payload[17]
          update_count == UnpackLE(SubSeq(payload, 21, 24))
      IN  IF ts_recv_ns < 0 \/ ts_exch_ns < 0 THEN Err("SchemaError")
          ELSE IF resets_book \notin {0, 1} THEN Err("SchemaError")
          ELSE IF Len(payload) # L2_BATCH_HEADER_SIZE + update_count * L2_UPDATE_SIZE
               THEN Err("SchemaError")
          ELSE
            LET updates == DecodeUpdates(payload, L2_BATCH_HEADER_SIZE, update_count)
            IN  IF updates.ok
                THEN Ok(L2Batch(ts_recv_ns, ts_exch_ns, resets_book = 1,
                                updates.value))
                ELSE updates

\* one iteration of the loop of EvlogReader.iter_l2_batches at position pos:
\* [kind |-> "eof"], [kind |-> "raise"] or [kind |-> "yield", batch, pos]
ReadRecord(f, pos) ==
    LET header == Read(f, pos, RECORD_HEADER_SIZE) IN
    IF header = <<>> THEN [kind |-> "eof"]
    ELSE IF Len(header) # RECORD_HEADER_SIZE THEN [kind |-> "raise"]
    ELSE
      LET h == unpack_record_header(header) IN
      IF ~h.ok THEN [kind |-> "raise"]
      ELSE
        LET rec_type == h.value[1]
            payload_len == h.value[2]
            payload == Read(f, pos + RECORD_HEADER_SIZE, payload_len)
        IN  IF payload_len % 8 # 0 THEN [kind |-> "raise"]
            ELSE IF Len(payload) # payload_len THEN [kind |-> "raise"]
            ELSE IF rec_type = RecordType_L2_BATCH THEN
                LET d == _decode_l2_payload(payload) IN
                IF d.ok
                THEN [kind |-> "yield", batch |-> d.value,
                      pos |-> pos + RECORD_HEADER_SIZE + payload_len]
                ELSE [kind |-> "raise"]
            ELSE [kind |-> "raise"]

-----------------------------------------------------------------------------
(* evlog/index.py *)

INDEX_VERSION == 0
INDEX_HEADER_SIZE == 16
INDEX_ENTRY_SIZE == 16

\* b"MMEVLIDX"
INDEX_MAGIC == <<77, 77, 69, 86, 76, 73, 68, 88>>

IndexEntry(ts_recv_ns, offset) == [ts_recv_ns |-> ts_recv_ns, offset |-> offset]

_pack_header ==
    INDEX_MAGIC \o <<INDEX_VERSION, ENDIAN_LITTLE>> \o PackLE(0, 2) \o PackLE(0, 4)

\* _unpack_header: TRUE when the header is accepted
_unpack_header(data) ==
    /\ Len(data) = INDEX_HEADER_SIZE
    /\ SubSeq(data, 1, 8) = INDEX_MAGIC
    /\ data[9] = INDEX_VERSION
    /\ data[10] = ENDIAN_LITTLE
    /\ UnpackLE(SubSeq(data, 13, 16)) = 0

\* the checks _write_entries and read_index make on an entry, given the
\* previous entry (None for the first)
EntryAccepted(prev, entry) ==
    /\ entry.ts_recv_ns >= 0
    /\ entry.offset >= 0
    /\ ~(prev # None /\ entry.ts_recv_ns < prev[1].ts_recv_ns)
    /\ ~(prev # None /\ entry.offset <= prev[1].offset)

\* _write_entries: the bytes written, and whether every entry was accepted;
\* the entries before a rejected one are written
RECURSIVE _write_entries(_, _)
_write_entries(prev, es) ==
    IF es = <<>> THEN [ok |-> TRUE, bytes |-> <<>>]
    ELSE IF ~EntryAccepted(prev, Head(es)) THEN [ok |-> FALSE, bytes |-> <<>>]
    ELSE LET rest == _write_entries(Some(Head(es)), Tail(es)) IN
         [ok |-> rest.ok,
          bytes |-> PackLE(Head(es).ts_recv_ns, 8) \o PackLE(Head(es).offset, 8)
                      \o rest.bytes]

\* write_index: the header, then the entries
write_index(es) ==
    LET w == _write_entries(None, es) IN
    [ok |-> w.ok, bytes |-> _pack_header \o w.bytes]

RECURSIVE ReadEntries(_, _)
ReadEntries(prev, data) ==
    IF data = <<>> THEN Ok(<<>>)
    ELSE
      LET entry == IndexEntry(UnpackQ(SubSeq(data, 1, 8)),
                              UnpackQ(SubSeq(data, 9, 16)))
      IN  IF ~EntryAccepted(prev, entry) THEN Err("SchemaError")
          ELSE LET rest == ReadEntries(Some(entry),
                                       SubSeq(data, INDEX_ENTRY_SIZE + 1, Len(data)))
               IN  IF rest.ok THEN Ok(<<entry>> \o rest.value) ELSE rest

\* read_index: Ok(entries) or Err
read_index(bytes) ==
    LET header == Read(bytes, 0, INDEX_HEADER_SIZE)
        data == SubSeq(bytes, INDEX_HEADER_SIZE + 1, Len(bytes))
    IN  IF ~_unpack_header(header) THEN Err("SchemaError")
        ELSE IF Len(data) % INDEX_ENTRY_SIZE # 0 THEN Err("SchemaError")
        ELSE ReadEntries(None, data)

-----------------------------------------------------------------------------
(* ingest/compiler.py *)

\* core/hashing.py hash_text_u64: the low 8 bytes of a SHA-256; the model
\* gives each string of the inputs a distinct stand-in value
hash_text_u64(text) ==
    CASE text = "binance" -> 4660
      [] text = "BTCUSDT" -> 22136
      [] text = "ETHUSDT" -> 39612
      [] OTHER -> 0

\* hash_json_bytes(quantizer_payload): a stand-in 32-byte digest
quantizer_hash_bytes == [i \in 1..32 |-> 160 + i]

\* mutant: the offset is taken after the write
CompileBatch_TellAfter(f, es, batch) ==
    LET res == write_l2_batch(batch) IN
    IF res.ok
    THEN [ok |-> TRUE, file |-> f \o res.value,
          entries |-> Append(es, IndexEntry(batch.ts_recv_ns, Len(f \o res.value)))]
    ELSE [ok |-> FALSE, file |-> f, entries |-> es]

\* lines 201-206: offset = writer.tell(); write_l2_batch; entries.append
CompileBatch(f, es, batch) ==
    LET offset == Len(f)
        res == write_l2_batch(batch)
    IN  IF res.ok
        THEN [ok |-> TRUE, file |-> f \o res.value,
              entries |-> Append(es, IndexEntry(batch.ts_recv_ns, offset))]
        ELSE [ok |-> FALSE, file |-> f, entries |-> es]

\* the body of the for loop of line 193 run on each batch of bs in turn,
\* stopping at a batch the writer rejects
RECURSIVE CompileBatches(_, _, _)
CompileBatches(f, es, bs) ==
    IF bs = <<>> THEN [ok |-> TRUE, file |-> f, entries |-> es]
    ELSE LET c == CompileBatch(f, es, Head(bs)) IN
         IF c.ok THEN CompileBatches(c.file, c.entries, Tail(bs)) ELSE c

-----------------------------------------------------------------------------
(* Inputs: the L2Row records of io/tardis_csv.py.  A row of the stream is  *)
(* read from line line_number of the CSV file (the header is line 1); its  *)
(* exchange timestamp is distinct per line.                                *)

Venues == { <<"binance", "BTCUSDT">>, <<"binance", "ETHUSDT">> }

\* (side, price, amount) of a row: "0.5"/"1", "1.0"/"0" (a delete),
\* "0.7"/"1" (price not a multiple of 0.5), "0.5"/"-1" (negative amount)
RowBodies ==
    { [side |-> BID, price |-> Dec(5, -1), amount |-> Dec(1, 0)],
      [side |-> ASK, price |-> Dec(10, -1), amount |-> Dec(0, 0)],
      [side |-> BID, price |-> Dec(7, -1), amount |-> Dec(1, 0)],
      [side |-> ASK, price |-> Dec(5, -1), amount |-> Dec(-1, 0)] }

L2Row(venue, timestamp_us, local_timestamp_us, is_snapshot, body, line_number) ==
    [exchange |-> venue[1], symbol |-> venue[2],
     timestamp_us |-> timestamp_us,
     local_timestamp_us |-> local_timestamp_us,
     is_snapshot |-> is_snapshot,
     side |-> body.side, price |-> body.price, amount |-> body.amount,
     line_number |-> line_number, source |-> "l2.csv"]

RowsAt(line_number) ==
    { L2Row(v, 900 + line_number, lts, snap, body, line_number) :
        v \in Venues, lts \in 1..MaxLocalTs, snap \in BOOLEAN, body \in RowBodies }

-----------------------------------------------------------------------------
(* Specification of the batcher alone: iter_l2_batches driven row by row   *)

EvlogIdle ==
    /\ file = <<>> /\ wr = "new" /\ written = <<>>
    /\ rd = "new" /\ rpos = 0 /\ got = <<>>

CompileIdle == entries = <<>> /\ idx = None /\ compile = "idle"

SeekIdle == rindex = None /\ sought = None

BookIdle == book = None /\ bcall = None

SimIdle == config = None /\ strategy = None /\ bt = None
CalcIdle == call = None
PipeIdle == inputs = <<>> /\ hashed = None /\ manifest = None /\ first = None
ScopeIdle == scope = None

BatcherInit ==
    /\ failure_policy \in FailurePolicy
    /\ quarantine_action \in QuarantineAction
    /\ rows = <<>>
    /\ gen = GenInit(Some(<<>>))

Running == gen.raised = None /\ ~gen.done

\* the for loop pulls the next row and runs its body
NextRow ==
    /\ Running
    /\ Len(rows) < MaxRows
    /\ \E row \in RowsAt(Len(rows) + 2) :
         /\ gen' = LoopBody(gen, row, failure_policy, quarantine_action)
         /\ rows' = Append(rows, row)
    /\ UNCHANGED <<failure_policy, quarantine_action, evlogVars, compileVars,
                 seekVars, bookVars, simVars, calcVars, pipeVars, scopeVars>>

\* the input is exhausted: the code after the loop runs
EndOfRows ==
    /\ Running
    /\ gen' = Finish(gen, failure_policy, quarantine_action)
    /\ UNCHANGED <<failure_policy, quarantine_action, rows, evlogVars, compileVars,
                 seekVars, bookVars, simVars, calcVars, pipeVars, scopeVars>>

Init == BatcherInit /\ EvlogIdle /\ CompileIdle /\ SeekIdle /\ BookIdle /\ SimIdle /\ CalcIdle /\ PipeIdle /\ ScopeIdle

Next == NextRow \/ EndOfRows

Spec == Init /\ [][Next]_vars

-----------------------------------------------------------------------------
(* Properties of the batcher *)

Yielded == gen.yielded
Sink == gen.quarantine_sink[1]
Range(s) == { s[i] : i \in 1..Len(s) }
Last(s) == s[Len(s)]

\* the rows the sink holds a record for
QuarantinedLines == { r.line_number : r \in Range(Sink) }
NotQuarantined(r) == r.line_number \notin QuarantinedLines

\* the update a valid row contributes
UpdateOf(r) ==
    L2Update(r.side, quantize_price(r.price).value,
             quantize_amount(r.amount).value, r.is_snapshot)

\* the maximal runs of consecutive rows of rs with equal local_timestamp_us
RECURSIVE RunsOf(_)
RunsOf(rs) ==
    IF rs = <<>> THEN <<>>
    ELSE LET rest == RunsOf(Tail(rs)) IN
         IF rest # <<>> /\ Head(rest)[1].local_timestamp_us = Head(rs).local_timestamp_us
         THEN <<(<<Head(rs)>> \o Head(rest))>> \o Tail(rest)
         ELSE <<(<<Head(rs)>>)>> \o rest

IsSnapshotBatch(b) == \A i \in 1..Len(b.updates) : b.updates[i].is_snapshot

\* C1: the ts_recv_ns of the batches emitted by iter_l2_batches are
\* non-decreasing in emission order, under every policy and action.
C1_RecvNonDecreasing ==
    \A i \in 1..(Len(Yielded) - 1) :
        Yielded[i].ts_recv_ns <= Yielded[i + 1].ts_recv_ns

\* the local timestamps of the rows rejected for a reason other than ordering
RejectedTs ==
    { r.payload.local_timestamp_us :
        r \in { q \in Range(Sink) : q.reason # "local_timestamp decreased" } }

\* C2: under QUARANTINE/SKIP_BATCH, once the input is exhausted, no batch is
\* emitted for a timestamp one of whose rows was rejected, and the rows of every
\* other timestamp are emitted as their own batches, unchanged.
C2_SkipBatchDropsThatTimestampOnly ==
    (failure_policy = QUARANTINE /\ quarantine_action = SKIP_BATCH /\ gen.done) =>
        /\ \A i \in 1..Len(Yielded) :
               \A t \in RejectedTs : Yielded[i].ts_recv_ns # t * 1000
        /\ Yielded =
             IterL2Batches(
                 SelectSeq(rows, LAMBDA r : r.local_timestamp_us \notin RejectedTs
                                            /\ NotQuarantined(r)),
                 HARD_FAIL, HALT, None).yielded

\* C3: under QUARANTINE/SKIP_ROW, once the input is exhausted, the batches
\* emitted equal the batches HARD_FAIL emits for the stream without the
\* quarantined rows.
C3_SkipRowEqualsHardFailOnRest ==
    (failure_policy = QUARANTINE /\ quarantine_action = SKIP_ROW /\ gen.done) =>
        Yielded = IterL2Batches(SelectSeq(rows, NotQuarantined),
                                HARD_FAIL, HALT, None).yielded

\* C4: under HARD_FAIL, a stream consumed without a violation yields exactly one
\* batch per maximal run of equal local_timestamp_us: the run's rows as updates
\* in source order, ts_recv_ns = local_timestamp_us * 1000 and ts_exch_ns = the
\* run's last row's timestamp_us * 1000.
C4_OneBatchPerRun ==
    (failure_policy = HARD_FAIL /\ gen.done) =>
        LET runs == RunsOf(rows) IN
        /\ Len(Yielded) = Len(runs)
        /\ \A i \in 1..Len(runs) :
             /\ Yielded[i].updates = [j \in 1..Len(runs[i]) |-> UpdateOf(runs[i][j])]
             /\ Yielded[i].ts_recv_ns = runs[i][1].local_timestamp_us * 1000
             /\ Yielded[i].ts_exch_ns = Last(runs[i]).timestamp_us * 1000

C4_Witness ==
    /\ failure_policy = HARD_FAIL /\ gen.done
    /\ Len(rows) = 3 /\ Len(Yielded) = 2
    /\ Len(Yielded[1].updates) = 2
    /\ Yielded[1].updates[1] = Yielded[1].updates[2]

\* C5: for every emitted batch, resets_book holds exactly when the batch is a
\* snapshot batch and the previously emitted batch, if any, was not; so the
\* first emitted snapshot batch resets the book.
C5_ResetsBook ==
    \A i \in 1..Len(Yielded) :
        Yielded[i].resets_book =
            (IsSnapshotBatch(Yielded[i])
             /\ (i = 1 \/ ~IsSnapshotBatch(Yielded[i - 1])))

C5_Witness ==
    /\ Len(Yielded) = 3
    /\ IsSnapshotBatch(Yielded[1]) /\ Yielded[1].resets_book
    /\ IsSnapshotBatch(Yielded[2]) /\ ~Yielded[2].resets_book
    /\ ~IsSnapshotBatch(Yielded[3])

\* C6: under every policy, each emitted batch has at least one update and all
\* its updates carry the same is_snapshot; a batch without valid updates is not
\* emitted.
C6_NonEmptyUniformBatches ==
    \A i \in 1..Len(Yielded) :
        /\ Len(Yielded[i].updates) >= 1
        /\ \A j \in 1..Len(Yielded[i].updates) :
               Yielded[i].updates[j].is_snapshot = Yielded[i].updates[1].is_snapshot

\* a timestamp all of whose rows were quarantined yields nothing, while a later
\* batch is emitted
C6_Witness ==
    /\ failure_policy = QUARANTINE /\ quarantine_action = SKIP_ROW /\ gen.done
    /\ Len(rows) = 3 /\ Len(Sink) = 2 /\ Len(Yielded) = 1
    /\ rows[3].local_timestamp_us = rows[2].local_timestamp_us
    /\ rows[3].is_snapshot # rows[2].is_snapshot
    /\ rows[1].line_number \in QuarantinedLines
    /\ rows[1].local_timestamp_us < rows[2].local_timestamp_us

\* the violations of row k of a stream whose earlier rows are all valid
MismatchAt(k) ==
    k > 1 /\ (rows[k].exchange # rows[1].exchange \/ rows[k].symbol # rows[1].symbol)
DecreasingAt(k) ==
    k > 1 /\ rows[k].local_timestamp_us < rows[k - 1].local_timestamp_us
MixedAt(k) ==
    k > 1 /\ rows[k].local_timestamp_us = rows[k - 1].local_timestamp_us
          /\ rows[k].is_snapshot # rows[k - 1].is_snapshot
BadQuantAt(k) ==
    ~quantize_price(rows[k].price).ok \/ ~quantize_amount(rows[k].amount).ok
ViolatesAt(k) == MismatchAt(k) \/ DecreasingAt(k) \/ MixedAt(k) \/ BadQuantAt(k)
ErrorAt(k) ==
    IF MismatchAt(k) THEN "SchemaError"
    ELSE IF DecreasingAt(k) THEN "OrderingError"
    ELSE IF MixedAt(k) THEN "SchemaError"
    ELSE "QuantizationError"

\* C7: under HARD_FAIL the first violating row aborts the iteration with the
\* error of its violation, and no emitted batch contains that row or a later one.
C7_HardFailAborts ==
    failure_policy = HARD_FAIL =>
        /\ \A k \in 1..(Len(rows) - 1) : ~ViolatesAt(k)
        /\ rows # <<>> =>
             /\ (gen.raised # None) = ViolatesAt(Len(rows))
             /\ gen.raised # None =>
                  /\ gen.raised = Some(ErrorAt(Len(rows)))
                  /\ ~gen.done
                  /\ \A i \in 1..Len(Yielded) :
                       Yielded[i].ts_exch_ns < Last(rows).timestamp_us * 1000

\* a quantization error on the first row of a new timestamp: the batch before
\* it has been emitted, the iteration is aborted
C7_Witness ==
    /\ failure_policy = HARD_FAIL
    /\ gen.raised = Some("QuantizationError")
    /\ Len(rows) = 3 /\ Len(Yielded) = 1 /\ Len(Yielded[1].updates) = 2

\* the rows that made it into a batch or into the batch being assembled
RECURSIVE SumLen(_)
SumLen(bs) == IF bs = <<>> THEN 0 ELSE Len(Head(bs).updates) + SumLen(Tail(bs))
Accepted == SumLen(Yielded) + (IF gen.done THEN 0 ELSE Len(gen.updates))

\* C8: under QUARANTINE with a sink every detected violation appends exactly
\* one record (of the violating row) before the batcher raises or skips; under
\* HARD_FAIL the sink stays empty.
C8_OneRecordPerViolation ==
    /\ failure_policy = HARD_FAIL => Sink = <<>>
    /\ failure_policy = QUARANTINE =>
         \* records are of consumed rows, one per row at most, in stream order
         /\ \A i \in 1..Len(Sink) :
               /\ Sink[i].line_number \in 2..(Len(rows) + 1)
               /\ Sink[i].payload = rows[Sink[i].line_number - 1]
               /\ Sink[i].source = Sink[i].payload.source
               /\ i > 1 => Sink[i - 1].line_number < Sink[i].line_number
         \* an error raised was recorded first
         /\ gen.raised # None =>
               /\ Sink # <<>>
               /\ Last(Sink).payload = Last(rows)
         \* HALT: the first violation is the only record
         /\ quarantine_action = HALT =>
               /\ Len(Sink) = (IF rows # <<>> /\ ViolatesAt(Len(rows)) THEN 1 ELSE 0)
               /\ (gen.raised # None) = (Len(Sink) = 1)
         \* SKIP_ROW: a row is either part of a batch or has its one record
         /\ quarantine_action = SKIP_ROW =>
               /\ Accepted + Len(Sink) = Len(rows)
               /\ gen.raised = None
         /\ quarantine_action = SKIP_BATCH =>
               /\ Accepted + Len(Sink) <= Len(rows)
               /\ gen.raised = None

C8_Witness ==
    /\ failure_policy = QUARANTINE /\ quarantine_action = HALT
    /\ gen.raised = Some("OrderingError")
    /\ Len(Sink) = 1 /\ Len(rows) = 3

-----------------------------------------------------------------------------
(* Specification of the event log alone: an EvlogWriter scope that writes  *)
(* batches, then an EvlogReader scope that iterates over the file          *)

\* most batches written to one event log
MaxBatches == 2
\* most updates of a batch handed to the writer
MaxUpdates == 2

\* updates handed to the writer: valid ones, and an invalid side, a
\* non-positive price and a negative amount
EvUpdates ==
    { L2Update(BID, 1, 0, FALSE),
      L2Update(ASK, 70000, 5, TRUE),
      L2Update(2, 1, 1, FALSE),
      L2Update(BID, 0, 1, FALSE),
      L2Update(ASK, 1, -1, TRUE) }

EvUpdateSeqs == UNION { [1..n -> EvUpdates] : n \in 0..MaxUpdates }

EvBatches ==
    { L2Batch(tr, te, rb, us) :
        tr \in {-1, 1000, 70000}, te \in {900}, rb \in BOOLEAN,
        us \in EvUpdateSeqs }

BatcherIdle ==
    /\ failure_policy = HARD_FAIL /\ quarantine_action = HALT
    /\ rows = <<>> /\ gen = GenInit(None)

EvlogInit ==
    /\ file = <<>> /\ wr = "new" /\ written = <<>>
    /\ rd = "new" /\ rpos = 0 /\ got = <<>>

\* EvlogWriter.__enter__ with the default ids and no quantizer hash
WriterEnter ==
    /\ wr = "new"
    /\ file' = pack_header(0, 0, 0, None).value
    /\ wr' = "open"
    /\ UNCHANGED <<written, rd, rpos, got, batcherVars, compileVars,
                 seekVars, bookVars, simVars, calcVars, pipeVars, scopeVars>>

\* WriteL2Batch that writes the record header and the batch header before
\* it has validated the updates
WriteL2Batch_EagerHeader ==
    /\ wr = "open"
    /\ Len(written) < MaxBatches
    /\ \E batch \in EvBatches :
         LET res == write_l2_batch(batch) IN
         IF res.ok
         THEN /\ file' = file \o res.value
              /\ written' = Append(written, batch)
              /\ wr' = wr
         ELSE /\ wr' = "raised"
              /\ file' = file \o SubSeq(write_l2_batch([batch EXCEPT !.ts_recv_ns = 0,
                                                                   !.updates = <<>>]).value,
                                        1, RECORD_HEADER_SIZE + L2_BATCH_HEADER_SIZE)
              /\ UNCHANGED written
    /\ UNCHANGED <<rd, rpos, got, batcherVars, compileVars,
                 seekVars, bookVars, simVars, calcVars, pipeVars, scopeVars>>

\* EvlogWriter.write_l2_batch: a rejected batch raises out of the scope
WriteL2Batch ==
    /\ wr = "open"
    /\ Len(written) < MaxBatches
    /\ \E batch \in EvBatches :
         LET res == write_l2_batch(batch) IN
         IF res.ok
         THEN /\ file' = file \o res.value
              /\ written' = Append(written, batch)
              /\ wr' = wr
         ELSE /\ wr' = "raised"
              /\ UNCHANGED <<file, written>>
    /\ UNCHANGED <<rd, rpos, got, batcherVars, compileVars,
                 seekVars, bookVars, simVars, calcVars, pipeVars, scopeVars>>

\* EvlogWriter.__exit__
WriterExit ==
    /\ wr \in {"open", "raised"}
    /\ wr' = "closed"
    /\ UNCHANGED <<file, written, rd, rpos, got, batcherVars, compileVars,
                 seekVars, bookVars, simVars, calcVars, pipeVars, scopeVars>>

\* EvlogReader.__enter__ on the closed file
ReaderEnter ==
    /\ wr = "closed" /\ rd = "new"
    /\ LET h == read_header(file) IN
       IF h.ok THEN rd' = "open" /\ rpos' = h.value
       ELSE rd' = "raised" /\ rpos' = rpos
    /\ UNCHANGED <<file, wr, written, got, batcherVars, compileVars,
                 seekVars, bookVars, simVars, calcVars, pipeVars, scopeVars>>

\* one iteration of EvlogReader.iter_l2_batches
ReaderNext ==
    /\ rd = "open"
    /\ LET r == ReadRecord(file, rpos) IN
       IF r.kind = "yield"
       THEN /\ got' = Append(got, r.batch)
            /\ rpos' = r.pos
            /\ rd' = rd
       ELSE /\ rd' = (IF r.kind = "eof" THEN "eof" ELSE "raised")
            /\ UNCHANGED <<got, rpos>>
    /\ UNCHANGED <<file, wr, written, batcherVars, compileVars,
                 seekVars, bookVars, simVars, calcVars, pipeVars, scopeVars>>

InitEvlog ==
    BatcherIdle /\ EvlogInit /\ CompileIdle /\ SeekIdle /\ BookIdle /\ SimIdle /\ CalcIdle /\ PipeIdle /\ ScopeIdle

NextEvlog == WriterEnter \/ WriteL2Batch \/ WriterExit \/ ReaderEnter \/ ReaderNext

SpecEvlog == InitEvlog /\ [][NextEvlog]_vars

\* C9: reading a file with EvlogReader.iter_l2_batches yields the batches
\* write_l2_batch accepted, field for field and update for update, in the order
\* written: the reader never fails on it, what it has yielded so far is the
\* beginning of what was written, and at the end of the file it is all of it.
C9_Roundtrip ==
    /\ rd # "raised"
    /\ rd \in {"open", "eof"} =>
         /\ Len(got) <= Len(written)
         /\ got = SubSeq(written, 1, Len(got))
    /\ rd = "eof" => got = written

C9_Witness ==
    /\ rd = "eof" /\ Len(got) = 2
    /\ got[1].ts_recv_ns = 70000 /\ got[1].resets_book
    /\ Len(got[1].updates) = 2
    /\ got[1].updates[1] = L2Update(ASK, 70000, 5, TRUE)
    /\ got[1].updates[2] = L2Update(BID, 1, 0, FALSE)
    /\ got[2].updates = <<>>

-----------------------------------------------------------------------------
(* Specification of compile_l2_csv on one input file: the rows stream      *)
(* through iter_l2_batches into the EvlogWriter, then the index is written *)

CompileInit ==
    /\ failure_policy \in FailurePolicy
    /\ quarantine_action \in QuarantineAction
    /\ rows = <<>>
    /\ gen = GenInit(IF failure_policy = QUARANTINE THEN Some(<<>>) ELSE None)

\* the rows of the input file: both symbols, every local timestamp, a valid
\* update, a valid delete and a row whose price is not a multiple of 0.5
CompileRowBodies == { b \in RowBodies : b.amount.coef >= 0 }

CompileRowsAt(line_number) ==
    { r \in RowsAt(line_number) :
        [side |-> r.side, price |-> r.price, amount |-> r.amount] \in CompileRowBodies }

\* the batches the generator yielded during a step
NewBatches(g0, g1) == SubSeq(g1.yielded, Len(g0.yielded) + 1, Len(g1.yielded))

\* lines 157-170: no input file has a row
CompileNoRows ==
    /\ compile = "idle"
    /\ compile' = "SchemaError"
    /\ UNCHANGED <<batcherVars, evlogVars, entries, idx,
                 seekVars, bookVars, simVars, calcVars, pipeVars, scopeVars>>

\* the next row is pulled through the batcher; a batch it yields is written.
\* The first row (lines 161-192) also fixes the ids and opens the writer.
CompileRow ==
    /\ compile \in {"idle", "streaming"}
    /\ Len(rows) < MaxRows
    /\ \E row \in CompileRowsAt(Len(rows) + 2) :
       \E f0 \in { IF compile = "idle"
                   THEN pack_header(0, hash_text_u64(row.exchange),
                                    hash_text_u64(row.symbol),
                                    Some(quantizer_hash_bytes)).value
                   ELSE file } :
       \E g \in { LoopBody(gen, row, failure_policy, quarantine_action) } :
       \E bs \in { NewBatches(gen, g) } :
       \E c \in { CompileBatches(f0, entries, bs) } :
         /\ gen' = g
         /\ rows' = Append(rows, row)
         /\ file' = c.file
         /\ entries' = c.entries
         /\ written' = written \o bs
         /\ compile' = IF ~c.ok THEN "SchemaError"
                       ELSE IF g.raised # None THEN g.raised[1]
                       ELSE "streaming"
         /\ wr' = IF c.ok /\ g.raised = None THEN "open" ELSE "closed"
    /\ UNCHANGED <<failure_policy, quarantine_action, rd, rpos, got, idx,
                 seekVars, bookVars, simVars, calcVars, pipeVars, scopeVars>>

\* the rows are exhausted: the trailing batch is written, the writer closed,
\* the index written (lines 193-208) and the manifest after it
CompileEnd ==
    /\ compile = "streaming"
    /\ \E g \in { Finish(gen, failure_policy, quarantine_action) } :
       \E bs \in { NewBatches(gen, g) } :
       \E c \in { CompileBatches(file, entries, bs) } :
       \E w \in { write_index(c.entries) } :
         /\ gen' = g
         /\ file' = c.file
         /\ entries' = c.entries
         /\ written' = written \o bs
         /\ wr' = "closed"
         /\ IF ~c.ok THEN compile' = "SchemaError" /\ idx' = idx
            ELSE IF g.raised # None THEN compile' = g.raised[1] /\ idx' = idx
            ELSE /\ idx' = Some(w.bytes)
                 /\ compile' = IF w.ok THEN "ok" ELSE "SchemaError"
    /\ UNCHANGED <<failure_policy, quarantine_action, rows, rd, rpos, got,
                 seekVars, bookVars, simVars, calcVars, pipeVars, scopeVars>>

InitCompile ==
    CompileInit /\ EvlogInit /\ CompileIdle /\ SeekIdle /\ BookIdle /\ SimIdle /\ CalcIdle /\ PipeIdle /\ ScopeIdle

NextCompile == CompileNoRows \/ CompileRow \/ CompileEnd

SpecCompile == InitCompile /\ [][NextCompile]_vars

\* the records of an event log, in file order, each with the offset at which
\* it begins
RECURSIVE RecordsFrom(_, _)
RecordsFrom(f, pos) ==
    LET r == ReadRecord(f, pos) IN
    IF r.kind = "yield"
    THEN <<[offset |-> pos, batch |-> r.batch]>> \o RecordsFrom(f, r.pos)
    ELSE <<>>

\* the ts_recv_ns field of the record that begins at offset
StoredTsRecvNs(f, offset) ==
    UnpackQ(SubSeq(f, offset + RECORD_HEADER_SIZE + 1, offset + RECORD_HEADER_SIZE + 8))

\* C10: after a successful compile the index file holds one entry per log
\* record, in file order: its offset is the byte offset at which the record
\* begins (64 for the first) and its ts_recv_ns the one stored in the record;
\* offsets increase strictly and timestamps never decrease.
C10_IndexMatchesLog ==
    compile = "ok" =>
        LET ix == read_index(idx[1])
            recs == RecordsFrom(file, HEADER_V1_SIZE)
        IN  /\ ix.ok
            /\ Len(recs) = Len(written)
            /\ Len(file) = (IF recs = <<>> THEN HEADER_V1_SIZE
                            ELSE ReadRecord(file, Last(recs).offset).pos)
            /\ Len(ix.value) = Len(recs)
            /\ \A k \in 1..Len(recs) :
                 /\ ix.value[k].offset = recs[k].offset
                 /\ ix.value[k].ts_recv_ns = StoredTsRecvNs(file, recs[k].offset)
                 /\ k = 1 => ix.value[k].offset = 64
                 /\ k > 1 =>
                      /\ ix.value[k - 1].offset < ix.value[k].offset
                      /\ ix.value[k - 1].ts_recv_ns <= ix.value[k].ts_recv_ns

C10_Witness ==
    /\ compile = "ok"
    /\ Len(written) = 3
    /\ Len(entries) = 3
    /\ entries[2].ts_recv_ns < entries[3].ts_recv_ns

-----------------------------------------------------------------------------
(* Specification of the indexed reader: a log is written with one index    *)
(* entry per batch (the offset taken before the write), the index file is  *)
(* written, and a reader opened with the index seeks by time and iterates  *)

\* most batches of an indexed log
MaxSeekBatches == 3

\* batches of an indexed log: three receive times, with and without an update
SeekBatches ==
    { L2Batch(tr, 900, FALSE, us) :
        tr \in {1000, 2000, 3000},
        us \in { <<>>, <<L2Update(BID, 10, 1, FALSE)>> } }

\* arguments of seek_time: below, at, between and above the receive times
SeekTargets == {0, 1000, 1500, 2000, 3000, 3001}

\* bisect.bisect_right (Python's standard library)
RECURSIVE bisect_left_Right(_, _, _, _)
bisect_left_Right(a, x, lo, hi) ==
    IF lo < hi
    THEN LET mid == (lo + hi) \div 2 IN
         IF x < a[mid + 1] THEN bisect_left_Right(a, x, lo, mid)
         ELSE bisect_left_Right(a, x, mid + 1, hi)
    ELSE lo

\* bisect.bisect_left (Python's standard library) on the 0-based positions
\* lo..hi-1 of the list a
RECURSIVE bisect_left(_, _, _, _)
bisect_left(a, x, lo, hi) ==
    IF lo < hi
    THEN LET mid == (lo + hi) \div 2 IN
         IF a[mid + 1] < x THEN bisect_left(a, x, mid + 1, hi)
         ELSE bisect_left(a, x, lo, mid)
    ELSE lo

\* EvlogReader._index_ts (reader.py line 89)
IndexTs(index) == [k \in 1..Len(index) |-> index[k].ts_recv_ns]

\* EvlogReader.seek_time: the new file position, or the error raised
seek_time(f, index, ts_recv_ns) ==
    IF index = None THEN Err("SchemaError")
    ELSE LET i == bisect_left(IndexTs(index[1]), ts_recv_ns, 0, Len(index[1])) IN
         IF i >= Len(index[1]) THEN Ok(Len(f))
         ELSE Ok(index[1][i + 1].offset)

SeekInit == EvlogInit /\ CompileIdle /\ SeekIdle

\* offset = writer.tell(); writer.write_l2_batch(batch); entries.append(...)
IndexedWrite ==
    /\ wr = "open"
    /\ Len(written) < MaxSeekBatches
    /\ \E batch \in SeekBatches :
       \E c \in { CompileBatch(file, entries, batch) } :
         /\ file' = c.file
         /\ entries' = c.entries
         /\ written' = IF c.ok THEN Append(written, batch) ELSE written
         /\ wr' = IF c.ok THEN wr ELSE "raised"
    /\ UNCHANGED <<rd, rpos, got, idx, compile, batcherVars,
                 seekVars, bookVars, simVars, calcVars, pipeVars, scopeVars>>

\* the writer's scope ends and write_index(idx_path, entries) runs; the file
\* keeps what was written before a rejected entry
IndexedClose ==
    /\ wr = "open"
    /\ wr' = "closed"
    /\ idx' = Some(write_index(entries).bytes)
    /\ UNCHANGED <<file, written, rd, rpos, got, entries, compile, batcherVars,
                 seekVars, bookVars, simVars, calcVars, pipeVars, scopeVars>>

\* EvlogReader(path, index_path=idx_path).__enter__()
IndexedReaderEnter ==
    /\ wr = "closed" /\ rd = "new" /\ idx # None
    /\ \E ix \in { read_index(idx[1]) } :
       \E h \in { read_header(file) } :
         IF ~ix.ok THEN rd' = "raised" /\ UNCHANGED <<rpos, rindex>>
         ELSE /\ rindex' = Some(ix.value)
              /\ IF h.ok THEN rd' = "open" /\ rpos' = h.value
                 ELSE rd' = "raised" /\ rpos' = rpos
    /\ UNCHANGED <<file, wr, written, got, sought, entries, idx, compile,
                 batcherVars, bookVars, simVars, calcVars, pipeVars, scopeVars>>

\* reader.seek_time(t), then a fresh reader.iter_l2_batches()
SeekTime ==
    /\ rd \in {"open", "eof"}
    /\ \E t \in SeekTargets :
       \E s \in { seek_time(file, rindex, t) } :
         /\ sought' = Some(t)
         /\ got' = <<>>
         /\ IF s.ok THEN rd' = "open" /\ rpos' = s.value
            ELSE rd' = "raised" /\ rpos' = rpos
    /\ UNCHANGED <<file, wr, written, rindex, entries, idx, compile,
                 batcherVars, bookVars, simVars, calcVars, pipeVars, scopeVars>>

InitSeek == BatcherIdle /\ SeekInit /\ BookIdle /\ SimIdle /\ CalcIdle /\ PipeIdle /\ ScopeIdle

NextSeek ==
    WriterEnter \/ IndexedWrite \/ IndexedClose \/ IndexedReaderEnter
    \/ SeekTime \/ ReaderNext

SpecSeek == InitSeek /\ [][NextSeek]_vars

\* 1-based position of the first batch of bs received at or after t
\* (Len(bs) + 1 when there is none)
RECURSIVE FirstAtOrAfter(_, _, _)
FirstAtOrAfter(bs, t, k) ==
    IF k > Len(bs) THEN k
    ELSE IF bs[k].ts_recv_ns >= t THEN k
    ELSE FirstAtOrAfter(bs, t, k + 1)

\* the batches written from the first one received at or after t
FromTime(bs, t) == SubSeq(bs, FirstAtOrAfter(bs, t, 1), Len(bs))

\* the index file was written without error
IndexBuilt == idx # None /\ write_index(entries).ok

\* C11: with an index of (ts_recv_ns, offset before the write) per batch, the
\* iteration after seek_time(t) yields exactly the batches from the first one
\* with ts_recv_ns >= t to the end of the log, in file order: it never fails,
\* what it has yielded so far is the beginning of that suffix, and at the end
\* of the file it is all of it (nothing when no batch has ts_recv_ns >= t).
C11_SeekTime ==
    (IndexBuilt /\ sought # None) =>
        /\ rd \in {"open", "eof"}
        /\ Len(got) <= Len(FromTime(written, sought[1]))
        /\ got = SubSeq(FromTime(written, sought[1]), 1, Len(got))
        /\ rd = "eof" => got = FromTime(written, sought[1])

C11_Witness ==
    /\ IndexBuilt /\ sought = Some(2000) /\ rd = "eof"
    /\ Len(written) = 3
    /\ written[1].ts_recv_ns = 1000
    /\ written[2].ts_recv_ns = 2000
    /\ written[3].ts_recv_ns = 2000
    /\ got = SubSeq(written, 2, 3)

C11_WitnessNone ==
    /\ IndexBuilt /\ sought = Some(3001) /\ rd = "eof"
    /\ Len(written) = 3 /\ got = <<>>

-----------------------------------------------------------------------------
(* book/book_py.py: the reference L2 book.  A dict is a function from its  *)
(* keys; the sorted price arrays are sequences.                            *)

\* highest price of an update given to the book
MaxPrice == 3
\* largest amount of an update given to the book
MaxAmount == 2
\* most updates of a batch given to the book
MaxBookUpdates == 2

\* list.insert(idx, v) and list.pop(idx), idx 0-based
InsertAt(s, i, v) == SubSeq(s, 1, i) \o <<v>> \o SubSeq(s, i + 1, Len(s))
PopAt(s, i) == SubSeq(s, 1, i) \o SubSeq(s, i + 2, Len(s))

_insert_price(prices, price) ==
    LET i == bisect_left(prices, price, 0, Len(prices)) IN
    IF i < Len(prices) /\ prices[i + 1] = price THEN prices
    ELSE InsertAt(prices, i, price)

_remove_price_Noop(prices, price) == prices

_remove_price(prices, price) ==
    LET i == bisect_left(prices, price, 0, Len(prices)) IN
    IF i < Len(prices) /\ prices[i + 1] = price THEN PopAt(prices, i)
    ELSE prices

\* del levels[price] and levels[price] = amount
DictDel(d, k) == [q \in DOMAIN d \ {k} |-> d[q]]
DictSet(d, k, v) == [q \in DOMAIN d \cup {k} |-> IF q = k THEN v ELSE d[q]]

\* a state of the book left by reset() that keeps the ask side
reset_KeepAsks(b) ==
    [b EXCEPT !.bids = <<>>, !.bid_prices = <<>>]

\* BookPy.reset
reset(b) ==
    [b EXCEPT !.bids = <<>>, !.asks = <<>>, !.bid_prices = <<>>, !.ask_prices = <<>>]

\* BookPy.__init__
BookPy(reject_crossed) ==
    reset([reject_crossed |-> reject_crossed, bids |-> <<>>, asks |-> <<>>,
           bid_prices |-> <<>>, ask_prices |-> <<>>])

\* _apply_level that keeps the amount a level already has
_apply_level_KeepFirst(levels, prices, price, amount) ==
    IF amount = 0
    THEN IF price \in DOMAIN levels
         THEN [levels |-> DictDel(levels, price), prices |-> _remove_price(prices, price)]
         ELSE [levels |-> levels, prices |-> prices]
    ELSE IF price \in DOMAIN levels
         THEN [levels |-> levels, prices |-> prices]
         ELSE [levels |-> DictSet(levels, price, amount),
               prices |-> _insert_price(prices, price)]

\* BookPy._apply_level on one side's dict and price array
_apply_level(levels, prices, price, amount) ==
    IF amount = 0
    THEN IF price \in DOMAIN levels
         THEN [levels |-> DictDel(levels, price), prices |-> _remove_price(prices, price)]
         ELSE [levels |-> levels, prices |-> prices]
    ELSE [levels |-> DictSet(levels, price, amount),
          prices |-> _insert_price(prices, price)]

\* BookPy._apply_update: the book after the update, or the message of the
\* SchemaError raised (the book is then as it was)
_apply_update(b, update) ==
    IF update.price_ticks <= 0 THEN [book |-> b, raised |-> Some("non-positive price")]
    ELSE IF update.amount_lots < 0 THEN [book |-> b, raised |-> Some("negative amount")]
    ELSE IF update.side = BID
    THEN LET r == _apply_level(b.bids, b.bid_prices, update.price_ticks, update.amount_lots)
         IN  [book |-> [b EXCEPT !.bids = r.levels, !.bid_prices = r.prices],
              raised |-> None]
    ELSE IF update.side = ASK
    THEN LET r == _apply_level(b.asks, b.ask_prices, update.price_ticks, update.amount_lots)
         IN  [book |-> [b EXCEPT !.asks = r.levels, !.ask_prices = r.prices],
              raised |-> None]
    ELSE [book |-> b, raised |-> Some("unknown side")]

\* the for loop of apply_l2_batch: it stops at the first update that raises
RECURSIVE ApplyUpdates(_, _)
ApplyUpdates(b, updates) ==
    IF updates = <<>> THEN [book |-> b, raised |-> None]
    ELSE LET r == _apply_update(b, Head(updates)) IN
         IF r.raised # None THEN r ELSE ApplyUpdates(r.book, Tail(updates))

\* _check_crossed that accepts a bid equal to the ask
_check_crossed_Strict(b) ==
    IF b.bid_prices = <<>> \/ b.ask_prices = <<>> THEN None
    ELSE IF b.bid_prices[Len(b.bid_prices)] > b.ask_prices[1] THEN Some("crossed book")
    ELSE None

\* BookPy._check_crossed: the message of the SchemaError raised, if any
_check_crossed(b) ==
    IF b.bid_prices = <<>> \/ b.ask_prices = <<>> THEN None
    ELSE IF b.bid_prices[Len(b.bid_prices)] >= b.ask_prices[1] THEN Some("crossed book")
    ELSE None

\* BookPy.apply_l2_batch: the book it leaves and the error it raises, if any
apply_l2_batch(b, batch) ==
    LET r == ApplyUpdates(IF batch.resets_book THEN reset(b) ELSE b, batch.updates) IN
    IF r.raised # None THEN r
    ELSE IF b.reject_crossed THEN [book |-> r.book, raised |-> _check_crossed(r.book)]
    ELSE r

\* BookPy.best_bid_ask: <<bid_px, bid_qty, ask_px, ask_qty>>
best_bid_ask(b) ==
    (IF b.bid_prices = <<>> THEN <<None, None>>
     ELSE <<Some(b.bid_prices[Len(b.bid_prices)]),
            Some(b.bids[b.bid_prices[Len(b.bid_prices)]])>>)
    \o
    (IF b.ask_prices = <<>> THEN <<None, None>>
     ELSE <<Some(b.ask_prices[1]), Some(b.asks[b.ask_prices[1]])>>)

\* reversed(prices)
Reversed(s) == [k \in 1..Len(s) |-> s[Len(s) + 1 - k]]

\* the for loop of levels: at most depth entries of ordered, with their sizes
Take(ordered, lv, depth) ==
    LET n == IF Len(ordered) < depth THEN Len(ordered) ELSE depth IN
    <<SubSeq(ordered, 1, n), [k \in 1..n |-> lv[ordered[k]]]>>

\* levels that walks the bid prices in ascending order
levels_Ascending(b, side, depth) ==
    IF depth <= 0 THEN Ok(<<<<>>, <<>>>>)
    ELSE IF side = BID THEN Ok(Take(b.bid_prices, b.bids, depth))
    ELSE IF side = ASK THEN Ok(Take(b.ask_prices, b.asks, depth))
    ELSE Err("SchemaError")

\* BookPy.levels: (prices, sizes), or the SchemaError raised
levels(b, side, depth) ==
    IF depth <= 0 THEN Ok(<<<<>>, <<>>>>)
    ELSE IF side = BID THEN Ok(Take(Reversed(b.bid_prices), b.bids, depth))
    ELSE IF side = ASK THEN Ok(Take(b.ask_prices, b.asks, depth))
    ELSE Err("SchemaError")

-----------------------------------------------------------------------------
(* Specification of the book alone: any sequence of reset, apply_l2_batch, *)
(* best_bid_ask and levels calls on one BookPy object.  A caller may go on *)
(* using the book after apply_l2_batch has raised.  bcall holds the call   *)
(* whose outcome the caller is looking at, and "idle" once it has moved on *)
(* to make the next call.                                                  *)

\* updates given to the book: every side, price and amount in range, and an
\* unknown side, a non-positive price and a negative amount
BookUpdates ==
    { L2Update(s, p, a, FALSE) : s \in {BID, ASK}, p \in 1..MaxPrice, a \in 0..MaxAmount }
    \cup { L2Update(2, 1, 1, FALSE), L2Update(BID, 0, 1, FALSE), L2Update(ASK, 1, -1, FALSE) }

BookBatches ==
    { L2Batch(1000, 900, rb, us) :
        rb \in BOOLEAN,
        us \in UNION { [1..n -> BookUpdates] : n \in 0..MaxBookUpdates } }

\* arguments of levels
BookSides == {BID, ASK, 2}
BookDepths == -1 .. (MaxPrice + 1)

BookInit ==
    /\ \E rc \in BOOLEAN : book = Some(BookPy(rc))
    /\ bcall = Some([op |-> "idle"])

BookCallable == bcall = Some([op |-> "idle"])

BookReset ==
    /\ BookCallable
    /\ book' = Some(reset(book[1]))
    /\ bcall' = Some([op |-> "reset", pre |-> book[1]])
    /\ UNCHANGED <<batcherVars, evlogVars, compileVars, seekVars, simVars, calcVars, pipeVars, scopeVars>>

BookApply ==
    /\ BookCallable
    /\ \E batch \in BookBatches :
       \E r \in { apply_l2_batch(book[1], batch) } :
         /\ book' = Some(r.book)
         /\ bcall' = Some([op |-> "apply_l2_batch", batch |-> batch,
                           pre |-> book[1], raised |-> r.raised])
    /\ UNCHANGED <<batcherVars, evlogVars, compileVars, seekVars, simVars, calcVars, pipeVars, scopeVars>>

BookBest ==
    /\ BookCallable
    /\ bcall' = Some([op |-> "best_bid_ask", ret |-> best_bid_ask(book[1])])
    /\ UNCHANGED <<book, batcherVars, evlogVars, compileVars, seekVars, simVars, calcVars, pipeVars, scopeVars>>

BookLevels ==
    /\ BookCallable
    /\ \E side \in BookSides, depth \in BookDepths :
         bcall' = Some([op |-> "levels", side |-> side, depth |-> depth,
                        ret |-> levels(book[1], side, depth)])
    /\ UNCHANGED <<book, batcherVars, evlogVars, compileVars, seekVars, simVars, calcVars, pipeVars, scopeVars>>

\* the caller has looked at the outcome and goes on
BookReturn ==
    /\ ~BookCallable
    /\ bcall' = Some([op |-> "idle"])
    /\ UNCHANGED <<book, batcherVars, evlogVars, compileVars, seekVars, simVars, calcVars, pipeVars, scopeVars>>

InitBook ==
    BatcherIdle /\ EvlogIdle /\ CompileIdle /\ SeekIdle /\ BookInit /\ SimIdle /\ CalcIdle /\ PipeIdle /\ ScopeIdle

NextBook == BookReset \/ BookApply \/ BookBest \/ BookLevels \/ BookReturn

SpecBook == InitBook /\ [][NextBook]_vars

-----------------------------------------------------------------------------
(* Properties of the book *)

MaxOf(S) == CHOOSE x \in S : \A y \in S : y <= x
MinOf(S) == CHOOSE x \in S : \A y \in S : x <= y

\* the price-to-size map of a side
SideLevels(b, side) == IF side = BID THEN b.bids ELSE b.asks

\* the size stored at (side, price), None when the level is absent
LevelAt(b, side, price) ==
    IF price \in DOMAIN SideLevels(b, side) THEN Some(SideLevels(b, side)[price])
    ELSE None

\* both sides have a level and the highest bid is not below the lowest ask
Crossed(b) ==
    /\ DOMAIN b.bids # {} /\ DOMAIN b.asks # {}
    /\ MaxOf(DOMAIN b.bids) >= MinOf(DOMAIN b.asks)

\* an update _apply_update accepts
ValidUpdate(u) == u.side \in {BID, ASK} /\ u.price_ticks > 0 /\ u.amount_lots >= 0
AllValid(batch) == \A k \in 1..Len(batch.updates) : ValidUpdate(batch.updates[k])

\* the call the caller is looking at is an apply_l2_batch
Applied == bcall # None /\ bcall[1].op = "apply_l2_batch"

\* the amount of the last update of the batch for (side, price)
LastAmount(updates, side, price) ==
    LET ks == { k \in 1..Len(updates) :
                  updates[k].side = side /\ updates[k].price_ticks = price }
    IN  updates[MaxOf(ks)].amount_lots

\* the (side, price) pairs the batch has an update for
Referenced(batch) ==
    { <<batch.updates[k].side, batch.updates[k].price_ticks>> : k \in 1..Len(batch.updates) }

\* C12: with reject_crossed on, apply_l2_batch of a batch whose updates are
\* all applied fails (with the SchemaError "crossed book") exactly when, after
\* the last update, both sides are non-empty and the highest bid >= the lowest
\* ask; after a successful apply the best bid is strictly below the best ask
\* whenever both exist.
C12_CrossedRejected ==
    (Applied /\ book[1].reject_crossed) =>
        /\ AllValid(bcall[1].batch) =>
             /\ (bcall[1].raised # None) <=> Crossed(book[1])
             /\ bcall[1].raised \in {None, Some("crossed book")}
        /\ bcall[1].raised = None =>
             LET q == best_bid_ask(book[1]) IN
             (q[1] # None /\ q[3] # None) => q[1][1] < q[3][1]

\* a batch that leaves the best bid equal to the best ask is rejected
C12_Witness ==
    /\ Applied /\ book[1].reject_crossed
    /\ bcall[1].raised = Some("crossed book")
    /\ ~Crossed(bcall[1].pre)
    /\ MaxOf(DOMAIN book[1].bids) = MinOf(DOMAIN book[1].asks)

\* a batch that crosses the book after its first update only is accepted
C12_WitnessTransient ==
    /\ Applied /\ book[1].reject_crossed
    /\ bcall[1].raised = None /\ ~bcall[1].batch.resets_book
    /\ Len(bcall[1].batch.updates) = 2
    /\ Crossed(ApplyUpdates(bcall[1].pre, <<bcall[1].batch.updates[1]>>).book)
    /\ DOMAIN book[1].bids # {} /\ DOMAIN book[1].asks # {}

\* a price array holds the keys of its map in strictly ascending order, and
\* every size is positive
SortedKeys(prices, d) ==
    /\ \A k \in 1..(Len(prices) - 1) : prices[k] < prices[k + 1]
    /\ Range(prices) = DOMAIN d
    /\ \A p \in DOMAIN d : d[p] > 0

\* the top of the book read from the maps
BestOfMaps(b) ==
    (IF DOMAIN b.bids = {} THEN <<None, None>>
     ELSE <<Some(MaxOf(DOMAIN b.bids)), Some(b.bids[MaxOf(DOMAIN b.bids)])>>)
    \o
    (IF DOMAIN b.asks = {} THEN <<None, None>>
     ELSE <<Some(MinOf(DOMAIN b.asks)), Some(b.asks[MinOf(DOMAIN b.asks)])>>)

\* C13: after any sequence of reset and apply_l2_batch calls each side's price
\* array holds exactly the keys of that side's map, strictly ascending, every
\* stored size is > 0, and best_bid_ask returns the maximum bid price and the
\* minimum ask price with their sizes (None, None for an empty side).
C13_ArraysMatchMaps ==
    book # None =>
        /\ SortedKeys(book[1].bid_prices, book[1].bids)
        /\ SortedKeys(book[1].ask_prices, book[1].asks)
        /\ best_bid_ask(book[1]) = BestOfMaps(book[1])
        /\ (bcall[1].op = "best_bid_ask") => bcall[1].ret = BestOfMaps(book[1])

C13_Witness ==
    /\ bcall[1].op = "best_bid_ask"
    /\ Len(book[1].bid_prices) = 2 /\ Len(book[1].ask_prices) = 1
    /\ bcall[1].ret = <<Some(2), Some(1), Some(3), Some(2)>>

\* C14: after apply_l2_batch has applied the updates of a batch, each (side,
\* price) the batch refers to holds the amount of the last update for it, and
\* is absent if that amount is 0; a batch that only deletes a level that does
\* not exist leaves the book as it was.
C14_LastUpdateWins ==
    (Applied /\ AllValid(bcall[1].batch)) =>
        /\ \A k \in 1..Len(bcall[1].batch.updates) :
             LET u == bcall[1].batch.updates[k]
                 a == LastAmount(bcall[1].batch.updates, u.side, u.price_ticks)
             IN  LevelAt(book[1], u.side, u.price_ticks)
                   = (IF a = 0 THEN None ELSE Some(a))
        /\ ( /\ ~bcall[1].batch.resets_book
             /\ \A k \in 1..Len(bcall[1].batch.updates) :
                  /\ bcall[1].batch.updates[k].amount_lots = 0
                  /\ LevelAt(bcall[1].pre, bcall[1].batch.updates[k].side,
                             bcall[1].batch.updates[k].price_ticks) = None )
           => book[1] = bcall[1].pre

\* two updates of one level in a batch: the second amount is stored
C14_Witness ==
    /\ Applied /\ bcall[1].raised = None
    /\ bcall[1].batch.updates = <<L2Update(BID, 2, 1, FALSE), L2Update(BID, 2, 2, FALSE)>>
    /\ LevelAt(bcall[1].pre, BID, 2) = None
    /\ LevelAt(book[1], BID, 2) = Some(2)

\* a level set and then deleted in one batch is absent
C14_WitnessDelete ==
    /\ Applied /\ bcall[1].raised = None
    /\ bcall[1].batch.updates = <<L2Update(ASK, 3, 2, FALSE), L2Update(ASK, 3, 0, FALSE)>>
    /\ LevelAt(bcall[1].pre, ASK, 3) = Some(1)
    /\ LevelAt(book[1], ASK, 3) = None

\* C15: a batch with resets_book = false leaves every level it does not refer
\* to, on both sides, unchanged; a batch with resets_book = true leaves no
\* level other than those set by its own updates: the book is the one the
\* batch gives on a newly made empty book.
C15_Frame ==
    Applied =>
        /\ ~bcall[1].batch.resets_book =>
             \A side \in {BID, ASK}, p \in 1..MaxPrice :
                <<side, p>> \notin Referenced(bcall[1].batch)
                  => LevelAt(book[1], side, p) = LevelAt(bcall[1].pre, side, p)
        /\ bcall[1].batch.resets_book =>
             /\ book[1] = apply_l2_batch(BookPy(bcall[1].pre.reject_crossed),
                                         bcall[1].batch).book
             /\ \A side \in {BID, ASK} :
                \A p \in DOMAIN SideLevels(book[1], side) :
                   \E k \in 1..Len(bcall[1].batch.updates) :
                      /\ bcall[1].batch.updates[k].side = side
                      /\ bcall[1].batch.updates[k].price_ticks = p
                      /\ bcall[1].batch.updates[k].amount_lots
                           = SideLevels(book[1], side)[p]

\* a resetting batch with one bid on a book with levels on both sides
C15_Witness ==
    /\ Applied /\ bcall[1].batch.resets_book
    /\ Len(bcall[1].pre.bid_prices) = 2 /\ Len(bcall[1].pre.ask_prices) = 2
    /\ bcall[1].batch.updates = <<L2Update(BID, 1, 2, FALSE)>>
    /\ book[1].asks = <<>> /\ book[1].bid_prices = <<1>>

\* a batch without reset that touches one level of a book with four levels
C15_WitnessKeep ==
    /\ Applied /\ ~bcall[1].batch.resets_book /\ bcall[1].raised = None
    /\ Len(bcall[1].pre.bid_prices) = 2 /\ Len(bcall[1].pre.ask_prices) = 2
    /\ bcall[1].batch.updates = <<L2Update(ASK, 2, 0, FALSE)>>
    /\ Len(book[1].bid_prices) = 2 /\ Len(book[1].ask_prices) = 1

\* C16: levels(side, depth) returns the min(depth, number of levels) best
\* levels of the side with their sizes, bids in strictly descending and asks
\* in strictly ascending price, and empty tuples when depth <= 0; its first
\* entry, when present, is that side's half of best_bid_ask.
C16_Levels ==
    (bcall # None /\ bcall[1].op = "levels" /\ bcall[1].side \in {BID, ASK}) =>
        /\ bcall[1].ret.ok
        /\ LET ps == bcall[1].ret.value[1]
               ss == bcall[1].ret.value[2]
               lv == SideLevels(book[1], bcall[1].side)
               isBid == bcall[1].side = BID
               top == best_bid_ask(book[1])
           IN  /\ Len(ps) = (IF bcall[1].depth <= 0 THEN 0
                             ELSE Min(bcall[1].depth, Cardinality(DOMAIN lv)))
               /\ Len(ss) = Len(ps)
               /\ \A k \in 1..Len(ps) : ps[k] \in DOMAIN lv /\ ss[k] = lv[ps[k]]
               /\ \A k \in 1..(Len(ps) - 1) :
                    IF isBid THEN ps[k] > ps[k + 1] ELSE ps[k] < ps[k + 1]
               /\ \A p \in DOMAIN lv \ Range(ps) :
                    \A k \in 1..Len(ps) : IF isBid THEN p < ps[k] ELSE p > ps[k]
               /\ Len(ps) > 0 =>
                    IF isBid THEN <<Some(ps[1]), Some(ss[1])>> = <<top[1], top[2]>>
                    ELSE <<Some(ps[1]), Some(ss[1])>> = <<top[3], top[4]>>

\* the two best of three bids
C16_Witness ==
    /\ bcall[1].op = "levels" /\ bcall[1].side = BID /\ bcall[1].depth = 2
    /\ Len(book[1].bid_prices) = 3
    /\ bcall[1].ret = Ok(<<<<3, 2>>, <<book[1].bids[3], book[1].bids[2]>>>>)

-----------------------------------------------------------------------------
(* sim/fees.py, sim/portfolio.py, strategy/, sim/exchange.py: market-order *)
(* execution and run_backtest.  An exception is the message of the         *)
(* SchemaError raised.                                                     *)

\* most batches of the event log a backtest replays
MaxRunBatches == 4

\* FixedBpsFeeModel(bps): the checks of __post_init__
FixedBpsFeeModel(bps) ==
    IF bps < 0 THEN Err("fee bps must be non-negative")
    ELSE IF bps > 10000 THEN Err("fee bps too large")
    ELSE Ok(bps)

\* fee_atoms that rounds the fee up
fee_atoms_Ceil(bps, notional) ==
    IF notional < 0 THEN Err("notional must be non-negative")
    ELSE Ok((notional * bps + 9999) \div 10000)

\* FixedBpsFeeModel.fee_atoms
fee_atoms(bps, notional) ==
    IF notional < 0 THEN Err("notional must be non-negative")
    ELSE Ok((notional * bps) \div 10000)

Portfolio(cash, position) == [cash |-> cash, position |-> position]

\* apply_fill that credits the fee of a sell
apply_fill_FeeSign(p, side, price_ticks, qty_lots, fee, allow_short, allow_margin) ==
    IF qty_lots <= 0 THEN Err("qty_lots must be positive")
    ELSE IF price_ticks <= 0 THEN Err("price_ticks must be positive")
    ELSE IF fee < 0 THEN Err("fee_atoms must be non-negative")
    ELSE IF side = BID
    THEN IF ~allow_margin /\ p.cash < price_ticks * qty_lots + fee
         THEN Err("insufficient cash for buy")
         ELSE Ok(Portfolio(p.cash - (price_ticks * qty_lots + fee), p.position + qty_lots))
    ELSE IF side = ASK
    THEN IF ~allow_short /\ p.position < qty_lots
         THEN Err("insufficient position for sell")
         ELSE Ok(Portfolio(p.cash + (price_ticks * qty_lots + fee), p.position - qty_lots))
    ELSE Err("invalid side")

\* apply_fill that refuses a buy leaving no cash at all
apply_fill_StrictCash(p, side, price_ticks, qty_lots, fee, allow_short, allow_margin) ==
    IF qty_lots <= 0 THEN Err("qty_lots must be positive")
    ELSE IF price_ticks <= 0 THEN Err("price_ticks must be positive")
    ELSE IF fee < 0 THEN Err("fee_atoms must be non-negative")
    ELSE IF side = BID
    THEN IF ~allow_margin /\ p.cash <= price_ticks * qty_lots + fee
         THEN Err("insufficient cash for buy")
         ELSE Ok(Portfolio(p.cash - (price_ticks * qty_lots + fee), p.position + qty_lots))
    ELSE IF side = ASK
    THEN IF ~allow_short /\ p.position < qty_lots
         THEN Err("insufficient position for sell")
         ELSE Ok(Portfolio(p.cash + (price_ticks * qty_lots - fee), p.position - qty_lots))
    ELSE Err("invalid side")

\* Portfolio.apply_fill: the portfolio after the fill, or the error raised
apply_fill(p, side, price_ticks, qty_lots, fee, allow_short, allow_margin) ==
    IF qty_lots <= 0 THEN Err("qty_lots must be positive")
    ELSE IF price_ticks <= 0 THEN Err("price_ticks must be positive")
    ELSE IF fee < 0 THEN Err("fee_atoms must be non-negative")
    ELSE IF side = BID
    THEN IF ~allow_margin /\ p.cash < price_ticks * qty_lots + fee
         THEN Err("insufficient cash for buy")
         ELSE Ok(Portfolio(p.cash - (price_ticks * qty_lots + fee), p.position + qty_lots))
    ELSE IF side = ASK
    THEN IF ~allow_short /\ p.position < qty_lots
         THEN Err("insufficient position for sell")
         ELSE Ok(Portfolio(p.cash + (price_ticks * qty_lots - fee), p.position - qty_lots))
    ELSE Err("invalid side")

\* Portfolio.equity
equity(p, mark_price_ticks) ==
    IF mark_price_ticks <= 0 THEN Err("mark_price_ticks must be positive")
    ELSE Ok(p.cash + p.position * mark_price_ticks)

MarketOrder(side, qty_lots) == [side |-> side, qty_lots |-> qty_lots]

BookSnapshot(bid_px, bid_qty, ask_px, ask_qty) ==
    [bid_px |-> bid_px, bid_qty |-> bid_qty, ask_px |-> ask_px, ask_qty |-> ask_qty]

Fill(ts_recv_ns, side, price_ticks, qty_lots, notional, fee) ==
    [ts_recv_ns |-> ts_recv_ns, side |-> side, price_ticks |-> price_ticks,
     qty_lots |-> qty_lots, notional |-> notional, fee_atoms |-> fee]

\* _ensure_snapshot_ready
_ensure_snapshot_ready(bid_px, bid_qty, ask_px, ask_qty) ==
    IF bid_px = None \/ bid_qty = None \/ ask_px = None \/ ask_qty = None
    THEN Err("missing best bid/ask")
    ELSE IF bid_qty[1] <= 0 \/ ask_qty[1] <= 0
    THEN Err("non-positive top-of-book size")
    ELSE Ok(BookSnapshot(bid_px[1], bid_qty[1], ask_px[1], ask_qty[1]))

\* the outcome of _execute_market_order: it raised, or it returned a Fill with
\* the portfolio changed, or it returned None
Raised(msg) == [raised |-> Some(msg), fill |-> None]
Returned(fill, p) == [raised |-> None, fill |-> fill, portfolio |-> p]

\* _execute_market_order in which a risk reject is ignored whatever the flag
_execute_market_order_AlwaysIgnore(ts_recv_ns, order, snap, p, bps, allow_short, allow_margin, ignore_risk_rejects) ==
    IF order.qty_lots <= 0 THEN Raised("qty_lots must be positive")
    ELSE IF order.side \notin {BID, ASK} THEN Raised("invalid side")
    ELSE
      LET price == IF order.side = BID THEN snap.ask_px ELSE snap.bid_px
          available == IF order.side = BID THEN snap.ask_qty ELSE snap.bid_qty
          notional == price * order.qty_lots
          fee == fee_atoms(bps, notional)
      IN  IF order.qty_lots > available
          THEN Raised("market order exceeds top-of-book size")
          ELSE IF ~fee.ok THEN Raised(fee.error)
          ELSE IF order.side = BID /\ ~allow_margin /\ p.cash < notional + fee.value
          THEN Returned(None, p)
          ELSE IF order.side = ASK /\ ~allow_short /\ p.position < order.qty_lots
          THEN Returned(None, p)
          ELSE LET a == apply_fill(p, order.side, price, order.qty_lots, fee.value,
                                   allow_short, allow_margin)
               IN  IF ~a.ok THEN Raised(a.error)
                   ELSE Returned(Some(Fill(ts_recv_ns, order.side, price,
                                           order.qty_lots, notional, fee.value)),
                                 a.value)

\* _execute_market_order that does not look at the top-of-book size
_execute_market_order_NoSizeCheck(ts_recv_ns, order, snap, p, bps, allow_short, allow_margin, ignore_risk_rejects) ==
    IF order.qty_lots <= 0 THEN Raised("qty_lots must be positive")
    ELSE IF order.side \notin {BID, ASK} THEN Raised("invalid side")
    ELSE
      LET price == IF order.side = BID THEN snap.ask_px ELSE snap.bid_px
          notional == price * order.qty_lots
          fee == fee_atoms(bps, notional)
      IN  IF ~fee.ok THEN Raised(fee.error)
          ELSE IF order.side = BID /\ ~allow_margin /\ p.cash < notional + fee.value
          THEN IF ignore_risk_rejects THEN Returned(None, p)
               ELSE Raised("insufficient cash for buy")
          ELSE IF order.side = ASK /\ ~allow_short /\ p.position < order.qty_lots
          THEN IF ignore_risk_rejects THEN Returned(None, p)
               ELSE Raised("insufficient position for sell")
          ELSE LET a == apply_fill(p, order.side, price, order.qty_lots, fee.value,
                                   allow_short, allow_margin)
               IN  IF ~a.ok THEN Raised(a.error)
                   ELSE Returned(Some(Fill(ts_recv_ns, order.side, price,
                                           order.qty_lots, notional, fee.value)),
                                 a.value)

\* _execute_market_order that prices a fill at the order's own side of the book
_execute_market_order_OwnSide(ts_recv_ns, order, snap, p, bps, allow_short, allow_margin, ignore_risk_rejects) ==
    IF order.qty_lots <= 0 THEN Raised("qty_lots must be positive")
    ELSE IF order.side \notin {BID, ASK} THEN Raised("invalid side")
    ELSE
      LET price == IF order.side = BID THEN snap.bid_px ELSE snap.ask_px
          available == IF order.side = BID THEN snap.ask_qty ELSE snap.bid_qty
          notional == price * order.qty_lots
          fee == fee_atoms(bps, notional)
      IN  IF order.qty_lots > available
          THEN Raised("market order exceeds top-of-book size")
          ELSE IF ~fee.ok THEN Raised(fee.error)
          ELSE IF order.side = BID /\ ~allow_margin /\ p.cash < notional + fee.value
          THEN IF ignore_risk_rejects THEN Returned(None, p)
               ELSE Raised("insufficient cash for buy")
          ELSE IF order.side = ASK /\ ~allow_short /\ p.position < order.qty_lots
          THEN IF ignore_risk_rejects THEN Returned(None, p)
               ELSE Raised("insufficient position for sell")
          ELSE LET a == apply_fill(p, order.side, price, order.qty_lots, fee.value,
                                   allow_short, allow_margin)
               IN  IF ~a.ok THEN Raised(a.error)
                   ELSE Returned(Some(Fill(ts_recv_ns, order.side, price,
                                           order.qty_lots, notional, fee.value)),
                                 a.value)

\* _execute_market_order
_execute_market_order(ts_recv_ns, order, snap, p, bps, allow_short, allow_margin, ignore_risk_rejects) ==
    IF order.qty_lots <= 0 THEN Raised("qty_lots must be positive")
    ELSE IF order.side \notin {BID, ASK} THEN Raised("invalid side")
    ELSE
      LET price == IF order.side = BID THEN snap.ask_px ELSE snap.bid_px
          available == IF order.side = BID THEN snap.ask_qty ELSE snap.bid_qty
          notional == price * order.qty_lots
          fee == fee_atoms(bps, notional)
      IN  IF order.qty_lots > available
          THEN Raised("market order exceeds top-of-book size")
          ELSE IF ~fee.ok THEN Raised(fee.error)
          ELSE IF order.side = BID /\ ~allow_margin /\ p.cash < notional + fee.value
          THEN IF ignore_risk_rejects THEN Returned(None, p)
               ELSE Raised("insufficient cash for buy")
          ELSE IF order.side = ASK /\ ~allow_short /\ p.position < order.qty_lots
          THEN IF ignore_risk_rejects THEN Returned(None, p)
               ELSE Raised("insufficient position for sell")
          ELSE LET a == apply_fill(p, order.side, price, order.qty_lots, fee.value,
                                   allow_short, allow_margin)
               IN  IF ~a.ok THEN Raised(a.error)
                   ELSE Returned(Some(Fill(ts_recv_ns, order.side, price,
                                           order.qty_lots, notional, fee.value)),
                                 a.value)

\* strategy objects: AlternatingMarketOrderStrategy (strategy/dummy.py) and a
\* strategy that returns the same orders for every batch
Alternating(qty_lots) == [kind |-> "alternating", qty_lots |-> qty_lots, next_side |-> BID]
FixedOrders(orders) == [kind |-> "fixed", orders |-> orders]

\* RandomMarketOrderStrategy: random.Random(seed) is a generator whose
\* draws are a function of the seed; the model's stand-in keeps a state in
\* 0..15 that starts at the seed
RandomOrders(seed, order_pct, min_qty_lots, max_qty_lots) ==
    [kind |-> "random", seed |-> seed, rng |-> seed % 16, order_pct |-> order_pct,
     min_qty |-> min_qty_lots, max_qty |-> max_qty_lots]

\* the state of the generator after a draw
Drawn(rng) == (rng * 5 + 3) % 16

\* lines 59-64 of strategy/dummy.py, r2 and r3 being the generator after the
\* draw of the side and after the draw of the quantity
RandomOrder(s, r2, r3) ==
    [actions |-> <<MarketOrder(IF (r2 \div 4) % 2 = 0 THEN BID ELSE ASK,
                               IF s.min_qty = s.max_qty THEN s.min_qty
                               ELSE s.min_qty + (r3 % (s.max_qty + 1 - s.min_qty)))>>,
     strategy |-> [s EXCEPT !.rng = r3]]

\* RandomMarketOrderStrategy.on_batch, r1 being the generator after the draw
\* of line 57 when it is made
RandomOnBatch(s, r1) ==
    IF s.order_pct = 0 THEN [actions |-> <<>>, strategy |-> s]
    ELSE IF s.order_pct < 100 /\ r1 >= s.order_pct
    THEN [actions |-> <<>>, strategy |-> [s EXCEPT !.rng = r1]]
    ELSE RandomOrder(s, Drawn(r1),
                     IF s.min_qty = s.max_qty THEN Drawn(r1) ELSE Drawn(Drawn(r1)))

\* Strategy.on_batch: the actions returned and the strategy object after it
on_batch(s, ctx, snap) ==
    IF s.kind = "alternating"
    THEN [actions |-> <<MarketOrder(s.next_side, s.qty_lots)>>,
          strategy |-> [s EXCEPT !.next_side = IF s.next_side = BID THEN ASK ELSE BID]]
    ELSE IF s.kind = "random"
    THEN RandomOnBatch(s, IF s.order_pct < 100 THEN Drawn(s.rng) ELSE s.rng)
    ELSE [actions |-> s.orders, strategy |-> s]

\* RunConfig with the fee model's bps
RunConfig(initial_cash, initial_position, allow_short, allow_margin, skip_initial_missing_book, ignore_risk_rejects, fee_bps) ==
    [initial_cash |-> initial_cash, initial_position |-> initial_position,
     allow_short |-> allow_short, allow_margin |-> allow_margin,
     skip_initial_missing_book |-> skip_initial_missing_book,
     ignore_risk_rejects |-> ignore_risk_rejects, fee_bps |-> fee_bps]

\* the frame of run_backtest: its locals (lines 149-159), the exception that
\* ended it (raised), the returns of the RunResult it returned, and a record
\* of what each iteration of its loop did (batches)
FrameNew ==
    [status |-> "new", raised |-> None,
     portfolio |-> Portfolio(0, 0), fills |-> <<>>, equity_curve |-> <<>>,
     action_id |-> 0, fill_id |-> 0, seen_ready_book |-> FALSE,
     returns |-> None, batches |-> <<>>]

\* the run ends with the SchemaError msg
Fail(f, msg) == [f EXCEPT !.status = "SchemaError", !.raised = Some(msg)]

\* RunStart without the test of lines 146-147
RunStart_NoShortCheck(f, cfg) ==
    IF cfg.initial_cash <= 0 THEN Fail(f, "initial_cash must be positive")
    ELSE [f EXCEPT !.status = "running",
                   !.portfolio = Portfolio(cfg.initial_cash, cfg.initial_position)]

\* lines 142-159
RunStart(f, cfg) ==
    IF cfg.initial_cash <= 0 THEN Fail(f, "initial_cash must be positive")
    ELSE IF ~cfg.allow_short /\ cfg.initial_position < 0
    THEN Fail(f, "initial_position short not allowed")
    ELSE [f EXCEPT !.status = "running",
                   !.portfolio = Portfolio(cfg.initial_cash, cfg.initial_position)]

\* what one iteration of the action loop (lines 188-223) did
ActionRecord(order, action_id, before, fill_id_before, result, after, fill_id_after) ==
    [order |-> order, action_id |-> action_id,
     before |-> before, fill_id_before |-> fill_id_before,
     result |-> result, after |-> after, fill_id_after |-> fill_id_after]

\* AfterExecute that counts an action only when its order was filled or raised
AfterExecute_CountFilled(f, order, e, acts) ==
    IF e.raised # None
    THEN [frame |-> Fail([f EXCEPT !.action_id = @ + 1], e.raised[1]),
          acts |-> Append(acts, ActionRecord(order, f.action_id + 1, f.portfolio,
                                             f.fill_id, "raised", f.portfolio, f.fill_id))]
    ELSE IF e.fill = None
    THEN [frame |-> [f EXCEPT !.portfolio = e.portfolio],
          acts |-> Append(acts, ActionRecord(order, f.action_id, f.portfolio,
                                             f.fill_id, "none", e.portfolio, f.fill_id))]
    ELSE [frame |-> [f EXCEPT !.action_id = @ + 1, !.fill_id = @ + 1,
                              !.portfolio = e.portfolio,
                              !.fills = Append(@, e.fill[1])],
          acts |-> Append(acts, ActionRecord(order, f.action_id + 1, f.portfolio,
                                             f.fill_id, "fill", e.portfolio,
                                             f.fill_id + 1))]

\* lines 209-223 for an action that _execute_market_order has handled as e;
\* acts is the record of the loop so far
AfterExecute(f, order, e, acts) ==
    IF e.raised # None
    THEN [frame |-> Fail([f EXCEPT !.action_id = @ + 1], e.raised[1]),
          acts |-> Append(acts, ActionRecord(order, f.action_id + 1, f.portfolio,
                                             f.fill_id, "raised", f.portfolio, f.fill_id))]
    ELSE IF e.fill = None
    THEN [frame |-> [f EXCEPT !.action_id = @ + 1, !.portfolio = e.portfolio],
          acts |-> Append(acts, ActionRecord(order, f.action_id + 1, f.portfolio,
                                             f.fill_id, "none", e.portfolio, f.fill_id))]
    ELSE [frame |-> [f EXCEPT !.action_id = @ + 1, !.fill_id = @ + 1,
                              !.portfolio = e.portfolio,
                              !.fills = Append(@, e.fill[1])],
          acts |-> Append(acts, ActionRecord(order, f.action_id + 1, f.portfolio,
                                             f.fill_id, "fill", e.portfolio,
                                             f.fill_id + 1))]

\* the for loop of lines 188-223 over the actions the strategy returned
RECURSIVE ActionLoop(_, _, _, _, _, _)
\* the size a fill took is gone from the snapshot the next order sees
Depleted(snap, a) ==
    IF a.result # "fill" THEN snap
    ELSE IF a.order.side = BID
    THEN [snap EXCEPT !.ask_qty = @ - a.order.qty_lots]
    ELSE [snap EXCEPT !.bid_qty = @ - a.order.qty_lots]

\* ActionLoopNext over a snapshot that fills deplete
ActionLoopNext_Deplete(cfg, ts_recv_ns, snap, actions, r) ==
    ActionLoop(r.frame, cfg, ts_recv_ns, Depleted(snap, r.acts[Len(r.acts)]),
               Tail(actions), r.acts)

\* line 188: the next action of the loop, against the same snapshot
ActionLoopNext(cfg, ts_recv_ns, snap, actions, r) ==
    ActionLoop(r.frame, cfg, ts_recv_ns, snap, Tail(actions), r.acts)

ActionLoop(f, cfg, ts_recv_ns, snap, actions, acts) ==
    IF actions = <<>> \/ f.raised # None THEN [frame |-> f, acts |-> acts]
    ELSE ActionLoopNext(cfg, ts_recv_ns, snap, actions,
           AfterExecute(f, Head(actions),
             _execute_market_order(ts_recv_ns, Head(actions), snap, f.portfolio,
                                   cfg.fee_bps, cfg.allow_short, cfg.allow_margin,
                                   cfg.ignore_risk_rejects),
             acts))

\* what one iteration of the batch loop (lines 162-239) did
BatchRecord(ts_recv_ns, top, seen_before, outcome, acts) ==
    [ts_recv_ns |-> ts_recv_ns, top |-> top, seen_before |-> seen_before,
     outcome |-> outcome, actions |-> acts]

\* the iteration ends f with outcome
EndBatch(f, ts_recv_ns, top, seen_before, outcome, acts) ==
    [f EXCEPT !.batches = Append(@, BatchRecord(ts_recv_ns, top, seen_before,
                                                outcome, acts))]

\* AfterEquity that puts the new sample in front of the curve
AfterEquity_Prepend(f, ts_recv_ns, top, seen_before, acts, eq) ==
    IF ~eq.ok
    THEN EndBatch(Fail(f, eq.error), ts_recv_ns, top, seen_before, "raised", acts)
    ELSE EndBatch([f EXCEPT !.equity_curve = <<<<ts_recv_ns, eq.value>>>> \o @],
                  ts_recv_ns, top, seen_before, "processed", acts)

\* lines 225-232: the equity sample once the portfolio's equity is eq
AfterEquity(f, ts_recv_ns, top, seen_before, acts, eq) ==
    IF ~eq.ok
    THEN EndBatch(Fail(f, eq.error), ts_recv_ns, top, seen_before, "raised", acts)
    ELSE EndBatch([f EXCEPT !.equity_curve = Append(@, <<ts_recv_ns, eq.value>>)],
                  ts_recv_ns, top, seen_before, "processed", acts)

\* AfterActions that marks every position at the best bid
AfterActions_MarkBid(ts_recv_ns, top, snap, seen_before, r) ==
    IF r.frame.raised # None
    THEN EndBatch(r.frame, ts_recv_ns, top, seen_before, "raised", r.acts)
    ELSE AfterEquity(r.frame, ts_recv_ns, top, seen_before, r.acts,
                     equity(r.frame.portfolio, snap.bid_px))

\* lines 225-232 after the action loop returned r
AfterActions(ts_recv_ns, top, snap, seen_before, r) ==
    IF r.frame.raised # None
    THEN EndBatch(r.frame, ts_recv_ns, top, seen_before, "raised", r.acts)
    ELSE AfterEquity(r.frame, ts_recv_ns, top, seen_before, r.acts,
                     equity(r.frame.portfolio,
                            IF r.frame.portfolio.position >= 0 THEN snap.bid_px
                            ELSE snap.ask_px))

\* lines 186-232 once the strategy has returned ob
AfterStrategy(f, cfg, ts_recv_ns, top, snap, seen_before, ob) ==
    [frame |-> AfterActions(ts_recv_ns, top, snap, seen_before,
                            ActionLoop(f, cfg, ts_recv_ns, snap, ob.actions, <<>>)),
     strategy |-> ob.strategy]

\* lines 175-187 once _ensure_snapshot_ready has given sn
WithSnapshot(f, cfg, s, ts_recv_ns, top, sn) ==
    IF ~sn.ok
    THEN [frame |-> EndBatch(Fail(f, sn.error), ts_recv_ns, top, f.seen_ready_book,
                             "raised", <<>>),
          strategy |-> s]
    ELSE AfterStrategy([f EXCEPT !.seen_ready_book = TRUE], cfg, ts_recv_ns, top,
                       sn.value, f.seen_ready_book,
                       on_batch(s, [ts_recv_ns |-> ts_recv_ns,
                                    cash |-> f.portfolio.cash,
                                    position |-> f.portfolio.position], sn.value))

\* AfterTop that skips a batch with a missing side whenever the flag is set
AfterTop_SkipAlways(f, cfg, s, ts_recv_ns, top) ==
    IF top[1] = None \/ top[2] = None \/ top[3] = None \/ top[4] = None
    THEN IF cfg.skip_initial_missing_book
         THEN [frame |-> EndBatch(f, ts_recv_ns, top, f.seen_ready_book,
                                  "skipped", <<>>),
               strategy |-> s]
         ELSE [frame |-> EndBatch(Fail(f, "missing best bid/ask"), ts_recv_ns, top,
                                  f.seen_ready_book, "raised", <<>>),
               strategy |-> s]
    ELSE WithSnapshot(f, cfg, s, ts_recv_ns, top,
                      _ensure_snapshot_ready(top[1], top[2], top[3], top[4]))

\* lines 164-175 once best_bid_ask has given top: skip, fail, or go on
AfterTop(f, cfg, s, ts_recv_ns, top) ==
    IF top[1] = None \/ top[2] = None \/ top[3] = None \/ top[4] = None
    THEN IF cfg.skip_initial_missing_book /\ ~f.seen_ready_book
         THEN [frame |-> EndBatch(f, ts_recv_ns, top, f.seen_ready_book,
                                  "skipped", <<>>),
               strategy |-> s]
         ELSE [frame |-> EndBatch(Fail(f, "missing best bid/ask"), ts_recv_ns, top,
                                  f.seen_ready_book, "raised", <<>>),
               strategy |-> s]
    ELSE WithSnapshot(f, cfg, s, ts_recv_ns, top,
                      _ensure_snapshot_ready(top[1], top[2], top[3], top[4]))

\* lines 163-164 once apply_l2_batch has returned ap
AfterApply(f, cfg, s, ts_recv_ns, ap) ==
    IF ap.raised # None
    THEN [frame |-> EndBatch(Fail(f, ap.raised[1]), ts_recv_ns, <<None, None, None, None>>,
                             f.seen_ready_book, "rejected", <<>>),
          strategy |-> s, book |-> ap.book]
    ELSE [book |-> ap.book] @@ AfterTop(f, cfg, s, ts_recv_ns, best_bid_ask(ap.book))

\* one iteration of the loop of lines 162-239 on batch:
\* [frame, strategy, book] after it
RunLoopBody(f, cfg, s, b, batch) ==
    AfterApply(f, cfg, s, batch.ts_recv_ns, apply_l2_batch(b, batch))

\* _round_half_even that rounds a tie away from zero
_round_half_even_HalfUp(numer, denom) ==
    LET n == IF numer < 0 THEN -numer ELSE numer
        q == n \div denom
        q1 == IF (n % denom) * 2 >= denom THEN q + 1 ELSE q
    IN  IF numer < 0 THEN -q1 ELSE q1

\* _round_half_even that drops the remainder
_round_half_even_Truncate(numer, denom) ==
    LET n == IF numer < 0 THEN -numer ELSE numer
    IN  IF numer < 0 THEN -(n \div denom) ELSE n \div denom

\* metrics/pnl.py: _round_half_even for the positive denom its caller passes
_round_half_even(numer, denom) ==
    LET n == IF numer < 0 THEN -numer ELSE numer
        q == n \div denom
        twice_r == (n % denom) * 2
        q1 == IF twice_r > denom THEN q + 1
              ELSE IF twice_r = denom /\ q % 2 = 1 THEN q + 1
              ELSE q
    IN  IF numer < 0 THEN -q1 ELSE q1

\* returns_from_equity: Ok(the returns in bps) or Err(the SchemaError raised)
returns_from_equity(eq, initial_cash) ==
    IF initial_cash <= 0 THEN Err("initial_cash must be positive")
    ELSE IF Len(eq) < 2 THEN Err("insufficient equity points for returns")
    ELSE Ok([i \in 1..(Len(eq) - 1) |->
               _round_half_even((eq[i + 1] - eq[i]) * 10000, initial_cash)])

\* lines 241-259: the ways run_backtest can end after the loop.  The length
\* checks of returns_from_equity, sharpe_ratio and probabilistic_sharpe_ratio
\* and the zero second moment of all-zero returns are decided here; what the
\* floating-point moments of other returns give (a result, or a SchemaError
\* of _skew_kurtosis or _psr_denominator) is left open.
RunEnd(f, cfg) ==
    LET r == returns_from_equity([i \in 1..Len(f.equity_curve) |->
                                     f.equity_curve[i][2]], cfg.initial_cash)
    IN
    IF ~r.ok THEN { Fail(f, r.error) }
    ELSE
      LET returns == r.value
          g == [f EXCEPT !.returns = Some(returns)]
      IN  IF Len(returns) < 2 THEN { Fail(g, "insufficient returns for Sharpe") }
          ELSE IF Len(returns) < 3 THEN { Fail(g, "insufficient returns for PSR") }
          ELSE IF \A i \in 1..Len(returns) : returns[i] = 0
          THEN { Fail(g, "zero variance returns") }
          ELSE { [g EXCEPT !.status = "ok"], Fail(g, "invalid PSR denominator") }
               \cup (IF \A i \in 1..Len(returns) : returns[i] = returns[1]
                     THEN { Fail(g, "zero variance returns") } ELSE {})

-----------------------------------------------------------------------------
(* Specification of run_backtest on a written event log                    *)

\* configurations: 12 quote atoms buy one lot at 11 with its fee of 1
RunConfigs ==
    { RunConfig(12, 0, sh, mg, sk, ig, 1000) :
        sh \in BOOLEAN, mg \in BOOLEAN, sk \in BOOLEAN, ig \in BOOLEAN }
    \cup { RunConfig(0, 0, FALSE, FALSE, FALSE, FALSE, 1000),
           RunConfig(12, -1, FALSE, FALSE, FALSE, FALSE, 1000) }

RunStrategies ==
    { Alternating(1), Alternating(2),
      FixedOrders(<<MarketOrder(ASK, 1)>>),
      FixedOrders(<<MarketOrder(ASK, 1), MarketOrder(BID, 1)>>) }

\* what a batch of the log does: a snapshot 10 x 1 / 11 x 1, sizes 2 on both
\* sides, the ask deleted, a bid at the ask's price, the best bid moved to 9
RunBodies ==
    { [resets_book |-> TRUE,
       updates |-> <<L2Update(BID, 10, 1, TRUE), L2Update(ASK, 11, 1, TRUE)>>],
      [resets_book |-> FALSE,
       updates |-> <<L2Update(BID, 10, 2, FALSE), L2Update(ASK, 11, 2, FALSE)>>],
      [resets_book |-> FALSE, updates |-> <<L2Update(ASK, 11, 0, FALSE)>>],
      [resets_book |-> FALSE, updates |-> <<L2Update(BID, 11, 1, FALSE)>>],
      [resets_book |-> FALSE,
       updates |-> <<L2Update(BID, 9, 1, FALSE), L2Update(BID, 10, 0, FALSE)>>] }

\* a leading batch that leaves the ask side of the book empty
RunLeading == [resets_book |-> FALSE, updates |-> <<L2Update(BID, 11, 1, FALSE)>>]

\* the log of the batches bodies, received at 1000, 2000, ...
LogOf(bodies) ==
    [i \in 1..Len(bodies) |-> L2Batch(1000 * i, 900, bodies[i].resets_book,
                                      bodies[i].updates)]

\* logs of up to MaxRunBatches batches, and logs of MaxRunBatches batches
\* after a leading one-sided batch
RunLogs ==
    UNION { { LogOf(bodies) : bodies \in [1..n -> RunBodies] } : n \in 0..MaxRunBatches }
    \cup { LogOf(<<RunLeading>> \o bodies) : bodies \in [1..MaxRunBatches -> RunBodies] }

\* the log bs as the bytes EvlogWriter leaves
LogFile(bs) == CompileBatches(pack_header(0, 0, 0, None).value, <<>>, bs).file

RunInit ==
    /\ \E bs \in RunLogs :
         /\ written = bs
         /\ file = LogFile(bs)
    /\ wr = "closed" /\ rd = "new" /\ rpos = 0 /\ got = <<>>
    /\ \E cfg \in RunConfigs : config = Some(cfg)
    /\ \E s \in RunStrategies : strategy = Some(s)
    /\ bt = Some(FrameNew)
    /\ book = None /\ bcall = None

\* run_backtest up to the first iteration of its loop (lines 142-161)
SimStart ==
    /\ bt # None /\ bt[1].status = "new"
    /\ \E g \in { RunStart(bt[1], config[1]) } :
         IF g.raised # None
         THEN /\ bt' = Some(g)
              /\ UNCHANGED <<rd, rpos, book>>
         ELSE /\ book' = Some(BookPy(TRUE))
              /\ \E h \in { read_header(file) } :
                   IF h.ok
                   THEN rd' = "open" /\ rpos' = h.value /\ bt' = Some(g)
                   ELSE rd' = "raised" /\ rpos' = rpos
                        /\ bt' = Some(Fail(g, "SchemaError"))
    /\ UNCHANGED <<file, wr, written, got, bcall, config, strategy,
                 batcherVars, compileVars, seekVars, calcVars, pipeVars, scopeVars>>

\* one iteration of the loop of run_backtest (lines 162-239)
SimBatch ==
    /\ bt # None /\ bt[1].status = "running" /\ rd = "open"
    /\ \E r \in { ReadRecord(file, rpos) } :
         /\ r.kind = "yield"
         /\ \E n \in { RunLoopBody(bt[1], config[1], strategy[1], book[1], r.batch) } :
              /\ bt' = Some(n.frame)
              /\ strategy' = Some(n.strategy)
              /\ book' = Some(n.book)
         /\ got' = Append(got, r.batch)
         /\ rpos' = r.pos
    /\ UNCHANGED <<file, wr, written, rd, bcall, config,
                 batcherVars, compileVars, seekVars, calcVars, pipeVars, scopeVars>>

\* the reader ends the loop; lines 241-259
SimEnd ==
    /\ bt # None /\ bt[1].status = "running" /\ rd = "open"
    /\ \E r \in { ReadRecord(file, rpos) } :
         /\ r.kind # "yield"
         /\ IF r.kind = "eof"
            THEN rd' = "eof" /\ bt' \in { Some(g) : g \in RunEnd(bt[1], config[1]) }
            ELSE rd' = "raised" /\ bt' = Some(Fail(bt[1], "SchemaError"))
    /\ UNCHANGED <<file, wr, written, rpos, got, book, bcall, config, strategy,
                 batcherVars, compileVars, seekVars, calcVars, pipeVars, scopeVars>>

InitRun == BatcherIdle /\ CompileIdle /\ SeekIdle /\ RunInit /\ CalcIdle /\ PipeIdle /\ ScopeIdle

NextRun == SimStart \/ SimBatch \/ SimEnd

SpecRun == InitRun /\ [][NextRun]_vars

-----------------------------------------------------------------------------
(* Properties of run_backtest                                              *)

\* a side of book b is empty
MissingSide(b) == b.bid_prices = <<>> \/ b.ask_prices = <<>>

\* some iteration recorded in batches found a best bid and a best ask
CompleteSeen(batches) ==
    \E i \in 1..Len(batches) : batches[i].top[1] # None /\ batches[i].top[3] # None

\* frames f and g have the same portfolio, fills, equity samples and counters
SameRun(f, g) ==
    /\ f.portfolio = g.portfolio /\ f.fills = g.fills
    /\ f.equity_curve = g.equity_curve
    /\ f.action_id = g.action_id /\ f.fill_id = g.fill_id

\* the step is an iteration of the loop in which apply_l2_batch returned
BatchApplied ==
    /\ bt # None /\ bt[1].status = "running"
    /\ Len(bt'[1].batches) = Len(bt[1].batches) + 1
    /\ bt'[1].batches[Len(bt'[1].batches)].outcome # "rejected"

\* C17: in run_backtest, a batch after which a side of the book is empty
\* changes neither the portfolio, the fills, the equity samples, the action
\* and fill counters nor the strategy; the run goes on after it exactly when
\* skip_initial_missing_book is set and no earlier batch gave a complete
\* top-of-book, and otherwise it fails with SchemaError "missing best bid/ask".
C17_SkipOrFail ==
    [][ (BatchApplied /\ MissingSide(book'[1])) =>
          /\ SameRun(bt[1], bt'[1])
          /\ strategy' = strategy
          /\ IF config[1].skip_initial_missing_book /\ ~CompleteSeen(bt[1].batches)
             THEN bt'[1].status = "running" /\ bt'[1].raised = None
             ELSE /\ bt'[1].status = "SchemaError"
                  /\ bt'[1].raised = Some("missing best bid/ask") ]_vars

\* a leading batch was skipped and a later batch was processed
C17_Witness ==
    /\ bt # None /\ Len(bt[1].batches) >= 2
    /\ bt[1].batches[1].outcome = "skipped"
    /\ bt[1].batches[Len(bt[1].batches)].outcome = "processed"

\* with the flag set, a side went missing after a complete top-of-book
C17_WitnessFail ==
    /\ bt # None /\ config[1].skip_initial_missing_book
    /\ bt[1].raised = Some("missing best bid/ask")
    /\ CompleteSeen(bt[1].batches)
    /\ MissingSide(book[1])

\* the size a market order of side can take from the top-of-book top
Available(top, side) == IF side = BID THEN top[4][1] ELSE top[2][1]

\* the actions of the run so far, as <<iteration, action>> index pairs
ActionsOf(f) ==
    { <<i, j>> \in (1..Len(f.batches)) \X (1..2) : j <= Len(f.batches[i].actions) }

\* C18: a market order for more lots than the counterparty side of the
\* current top-of-book offers ends the run with SchemaError "market order
\* exceeds top-of-book size": it is the last action taken, it makes no fill
\* and consumes no fill_id, and the portfolio stays what it was before the
\* order, whatever ignore_risk_rejects, allow_margin and allow_short are.
C18_ExceedsFails ==
    bt # None =>
      \A ij \in ActionsOf(bt[1]) :
        LET rec == bt[1].batches[ij[1]]
            a == rec.actions[ij[2]]
        IN  (a.order.side \in {BID, ASK}
             /\ a.order.qty_lots > Available(rec.top, a.order.side)) =>
              /\ a.result = "raised"
              /\ ij[1] = Len(bt[1].batches) /\ ij[2] = Len(rec.actions)
              /\ bt[1].status = "SchemaError"
              /\ bt[1].raised = Some("market order exceeds top-of-book size")
              /\ bt[1].portfolio = a.before
              /\ bt[1].fill_id = a.fill_id_before
              /\ Len(bt[1].fills) = a.fill_id_before
              /\ Len(bt[1].equity_curve) = ij[1] - 1
                   - Cardinality({ k \in 1..(ij[1] - 1) : bt[1].batches[k].outcome = "skipped" })

\* an order for 2 lots met a top-of-book of 1 lot with risk rejects ignored
\* and margin and short selling allowed
C18_Witness ==
    /\ bt # None /\ config[1].ignore_risk_rejects
    /\ config[1].allow_margin /\ config[1].allow_short
    /\ \E ij \in ActionsOf(bt[1]) :
         LET rec == bt[1].batches[ij[1]]
             a == rec.actions[ij[2]]
         IN  a.order.qty_lots = 2 /\ Available(rec.top, a.order.side) = 1
    /\ bt[1].raised = Some("market order exceeds top-of-book size")

\* the price a market order of side trades at against the top-of-book top
TradePrice(top, side) == IF side = BID THEN top[3][1] ELSE top[1][1]

\* order a.order, within the top-of-book size, is a buy the cash before it
\* cannot pay without margin, or a sell the position before it cannot cover
\* without short selling
RiskFails(cfg, top, a) ==
    /\ a.order.side \in {BID, ASK}
    /\ a.order.qty_lots > 0
    /\ a.order.qty_lots <= Available(top, a.order.side)
    /\ LET notional == TradePrice(top, a.order.side) * a.order.qty_lots
           fee == (notional * cfg.fee_bps) \div 10000
       IN  \/ a.order.side = BID /\ ~cfg.allow_margin /\ a.before.cash < notional + fee
           \/ a.order.side = ASK /\ ~cfg.allow_short
              /\ a.before.position < a.order.qty_lots

\* the number of orders strategy s returns for a batch
NumOrders(s) == IF s.kind = "alternating" THEN 1 ELSE Len(s.orders)

\* C19: an order within the top-of-book size that fails the cash check (buy
\* without margin) or the position check (sell without short).  With
\* ignore_risk_rejects it returns no fill, consumes no fill_id and leaves
\* cash and position as they were; the next action of the batch is taken,
\* or after the last one the batch's equity sample, and the run does not end
\* before the log is read to its end.  Without ignore_risk_rejects it ends
\* the run with SchemaError and the portfolio unchanged.
C19_RiskReject ==
    bt # None =>
      \A ij \in ActionsOf(bt[1]) :
        LET rec == bt[1].batches[ij[1]]
            a == rec.actions[ij[2]]
            last == ij[1] = Len(bt[1].batches) /\ ij[2] = Len(rec.actions)
        IN  RiskFails(config[1], rec.top, a) =>
              IF config[1].ignore_risk_rejects
              THEN /\ a.result = "none"
                   /\ a.after = a.before
                   /\ a.fill_id_after = a.fill_id_before
                   /\ \/ ij[2] < Len(rec.actions)
                      \/ ij[2] = NumOrders(strategy[1]) /\ rec.outcome = "processed"
                   /\ (last /\ bt[1].raised # None) =>
                         rd = "eof" /\ Len(bt[1].batches) = Len(written)
              ELSE /\ a.result = "raised" /\ last
                   /\ bt[1].status = "SchemaError"
                   /\ bt[1].raised = Some(IF a.order.side = BID
                                          THEN "insufficient cash for buy"
                                          ELSE "insufficient position for sell")
                   /\ bt[1].portfolio = a.before
                   /\ bt[1].fill_id = a.fill_id_before
                   /\ Len(bt[1].fills) = a.fill_id_before

\* with risk rejects ignored, a rejected sell was followed by a filled buy in
\* the same batch and by a processed later batch
C19_Witness ==
    /\ bt # None /\ config[1].ignore_risk_rejects
    /\ \E i \in 1..(Len(bt[1].batches) - 1) :
         /\ Len(bt[1].batches[i].actions) = 2
         /\ RiskFails(config[1], bt[1].batches[i].top, bt[1].batches[i].actions[1])
         /\ bt[1].batches[i].actions[1].result = "none"
         /\ bt[1].batches[i].actions[2].result = "fill"
         /\ bt[1].batches[i + 1].outcome = "processed"

\* without the flag, a buy the cash could not pay ended the run
C19_WitnessFail ==
    /\ bt # None /\ ~config[1].ignore_risk_rejects
    /\ bt[1].raised = Some("insufficient cash for buy")
    /\ Len(bt[1].fills) > 0

\* the iterations of the run that were processed to their equity sample
Processed(f) == { i \in 1..Len(f.batches) : f.batches[i].outcome = "processed" }

\* C20: when the loop of run_backtest has read the log to its end, each
\* batch either skipped or processed with a complete top-of-book and no
\* order raising, run_backtest returns a RunResult, and the result holds one
\* equity sample per processed batch.
C20_ReturnsResult ==
    (bt # None /\ rd = "eof") =>
       /\ bt[1].status = "ok"
       /\ Len(bt[1].equity_curve) = Cardinality(Processed(bt[1]))

\* the actions of the run that made a fill
FillingActions(f) ==
    { ij \in ActionsOf(f) : f.batches[ij[1]].actions[ij[2]].result = "fill" }

\* C21: every fill of a buy order is priced at the best ask of the batch's
\* snapshot and every fill of a sell order at its best bid; its qty_lots is
\* the order's, its notional is price_ticks * qty_lots, its fee_atoms is
\* floor(notional * bps / 10000) and its ts_recv_ns is the batch's.  Every
\* fill of the run is the fill of one of its actions.
C21_FillTerms ==
    bt # None =>
      /\ Len(bt[1].fills) = Cardinality(FillingActions(bt[1]))
      /\ \A ij \in FillingActions(bt[1]) :
           LET rec == bt[1].batches[ij[1]]
               a == rec.actions[ij[2]]
               fill == bt[1].fills[a.fill_id_after]
           IN  /\ fill.side = a.order.side
               /\ fill.price_ticks = (IF a.order.side = BID THEN rec.top[3][1]
                                      ELSE rec.top[1][1])
               /\ fill.qty_lots = a.order.qty_lots
               /\ fill.notional = fill.price_ticks * fill.qty_lots
               /\ fill.fee_atoms * 10000 <= fill.notional * config[1].fee_bps
               /\ fill.notional * config[1].fee_bps < (fill.fee_atoms + 1) * 10000
               /\ fill.ts_recv_ns = rec.ts_recv_ns

\* a run filled a buy at the best ask 11 and, in a later batch, a sell at
\* the best bid
C21_Witness ==
    /\ bt # None /\ Len(bt[1].fills) >= 2
    /\ bt[1].fills[1].side = BID /\ bt[1].fills[1].price_ticks = 11
    /\ bt[1].fills[1].fee_atoms = 1
    /\ bt[1].fills[2].side = ASK /\ bt[1].fills[2].price_ticks \in {9, 10}
    /\ bt[1].fills[2].ts_recv_ns > bt[1].fills[1].ts_recv_ns

\* the actions of the run that were submitted before action ij or are ij
UpTo(f, ij) ==
    { xy \in ActionsOf(f) : xy[1] < ij[1] \/ (xy[1] = ij[1] /\ xy[2] <= ij[2]) }

\* the iterations of the run before the i-th in which the strategy was called
CalledBefore(f, i) == { k \in 1..(i - 1) : f.batches[k].actions # <<>> }

\* the j-th order strategy s returns on its n-th call
OrderOf(s, n, j) ==
    IF s.kind = "alternating"
    THEN MarketOrder(IF n % 2 = 1 THEN BID ELSE ASK, s.qty_lots)
    ELSE s.orders[j]

\* C22: across a run the n-th action the strategy returns gets action_id n
\* and the n-th fill gets fill_id n; a fill's fill_id is at most the
\* action_id of the order that produced it; and the fills of the run are
\* listed in the order their actions were submitted.
C22_Ids ==
    bt # None =>
      /\ bt[1].action_id = Cardinality(ActionsOf(bt[1]))
      /\ bt[1].fill_id = Len(bt[1].fills)
      /\ \A ij \in ActionsOf(bt[1]) :
           LET rec == bt[1].batches[ij[1]]
               a == rec.actions[ij[2]]
           IN  /\ a.order = OrderOf(strategy[1],
                                    Cardinality(CalledBefore(bt[1], ij[1])) + 1, ij[2])
               /\ a.action_id = Cardinality(UpTo(bt[1], ij))
               /\ a.fill_id_after = Cardinality(UpTo(bt[1], ij) \cap FillingActions(bt[1]))
               /\ a.result = "fill" =>
                    /\ a.fill_id_after = a.fill_id_before + 1
                    /\ a.fill_id_after <= a.action_id
                    /\ bt[1].fills[a.fill_id_after].side = a.order.side
                    /\ bt[1].fills[a.fill_id_after].qty_lots = a.order.qty_lots
                    /\ bt[1].fills[a.fill_id_after].ts_recv_ns = rec.ts_recv_ns
               /\ a.result # "fill" => a.fill_id_after = a.fill_id_before

\* the third action of a run made its second fill
C22_Witness ==
    /\ bt # None
    /\ \E ij \in FillingActions(bt[1]) :
         /\ bt[1].batches[ij[1]].actions[ij[2]].action_id = 3
         /\ bt[1].batches[ij[1]].actions[ij[2]].fill_id_after = 2

IsProcessed(rec) == rec.outcome = "processed"
NotSkipped(rec) == rec.outcome # "skipped"

\* the records of the iterations that were processed, in order
ProcessedSeq(f) == SelectSeq(f.batches, IsProcessed)

\* the run has not raised inside its loop
LoopIntact == bt[1].status \in {"running", "ok"} \/ rd = "eof"

\* C23: the equity curve holds exactly one sample for every batch that was
\* processed to its end, in the order of the file and stamped with the
\* batch's ts_recv_ns; the sample is the equity of the portfolio left by the
\* last of the batch's actions, all of which have been executed.  While the
\* loop has not raised, and so in every RunResult, the processed batches are
\* the batches of the file that were not skipped.
C23_EquityCurve ==
    bt # None =>
      /\ Len(bt[1].batches) <= Len(written)
      /\ \A i \in 1..Len(bt[1].batches) :
           bt[1].batches[i].ts_recv_ns = written[i].ts_recv_ns
      /\ Len(bt[1].equity_curve) = Len(ProcessedSeq(bt[1]))
      /\ \A k \in 1..Len(bt[1].equity_curve) :
           LET rec == ProcessedSeq(bt[1])[k]
               p == rec.actions[Len(rec.actions)].after
           IN  /\ bt[1].equity_curve[k][1] = rec.ts_recv_ns
               /\ Len(rec.actions) = NumOrders(strategy[1])
               /\ \A j \in 1..Len(rec.actions) : rec.actions[j].result \in {"fill", "none"}
               /\ bt[1].equity_curve[k][2]
                     \in { p.cash + p.position * rec.top[1][1],
                           p.cash + p.position * rec.top[3][1] }
      /\ LoopIntact => ProcessedSeq(bt[1]) = SelectSeq(bt[1].batches, NotSkipped)
      /\ bt[1].status = "ok" => Len(bt[1].batches) = Len(written)

\* a run returned a result after a skipped batch and four processed ones
\* whose equities differ
C23_Witness ==
    /\ bt # None /\ bt[1].status = "ok"
    /\ bt[1].batches[1].outcome = "skipped"
    /\ Len(bt[1].equity_curve) = 3 + 1
    /\ bt[1].equity_curve[1][1] = 2000
    /\ bt[1].equity_curve[1][2] # bt[1].equity_curve[2][2]

\* the cash and position that fills leave of the initial cash and position
RECURSIVE PortfolioFromFills(_, _, _)
PortfolioFromFills(cash, position, fills) ==
    IF fills = <<>> THEN Portfolio(cash, position)
    ELSE LET fl == Head(fills) IN
         IF fl.side = BID
         THEN PortfolioFromFills(cash - fl.notional - fl.fee_atoms,
                                 position + fl.qty_lots, Tail(fills))
         ELSE PortfolioFromFills(cash + fl.notional - fl.fee_atoms,
                                 position - fl.qty_lots, Tail(fills))

\* the fills of the run made at or before time ts
FillsUpTo(f, ts) == SelectSeq(f.fills, LAMBDA fl : fl.ts_recv_ns <= ts)

\* C24: each equity sample equals cash + position * mark, where cash and
\* position are what the fills up to and including the sample's batch leave
\* of the initial cash and position, and mark is the batch's best bid when
\* the position is >= 0 and its best ask when the position is < 0.
C24_EquityValue ==
    bt # None =>
      \A k \in 1..Len(bt[1].equity_curve) :
        LET rec == ProcessedSeq(bt[1])[k]
            p == PortfolioFromFills(config[1].initial_cash, config[1].initial_position,
                                    FillsUpTo(bt[1], bt[1].equity_curve[k][1]))
            mark == IF p.position >= 0 THEN rec.top[1][1] ELSE rec.top[3][1]
        IN  bt[1].equity_curve[k][2] = p.cash + p.position * mark

\* a short position of one lot was marked at the best ask 11
C24_Witness ==
    /\ bt # None /\ Len(bt[1].equity_curve) >= 1
    /\ bt[1].portfolio.position = -1
    /\ bt[1].batches[Len(bt[1].batches)].outcome = "processed"
    /\ bt[1].equity_curve[Len(bt[1].equity_curve)][2] = bt[1].portfolio.cash - 11

-----------------------------------------------------------------------------
(* Specification of the pure functions: a call is drawn with its arguments *)
(* and the function applied to them                                        *)

MaxEquityLen == 4

\* equity values and initial_cash: 32 and 20000 make ties
EquityValues == {0, 1, 2, 4}
EquityCurves == UNION { [1..n -> EquityValues] : n \in 0..MaxEquityLen }
CashValues == {-1, 0, 3, 32, 20000}

Call(op, args) == [op |-> op, args |-> args, ret |-> None]

ReturnsCalls ==
    { Call("returns_from_equity", <<eq, c>>) : eq \in EquityCurves, c \in CashValues }

\* the function of call c has not been applied yet
Pending(op) == call # None /\ call[1].op = op /\ call[1].ret = None

CallReturnsFromEquity ==
    /\ Pending("returns_from_equity")
    /\ call' = Some([call[1] EXCEPT !.ret =
                       Some(returns_from_equity(call[1].args[1], call[1].args[2]))])
    /\ UNCHANGED <<batcherVars, evlogVars, compileVars, seekVars, bookVars,
                 simVars, pipeVars, scopeVars>>

\* the call of op has returned or raised
Done(op) == call # None /\ call[1].op = op /\ call[1].ret # None

Abs(x) == IF x < 0 THEN -x ELSE x

\* r is numer / denom rounded to the nearest integer, a tie to the even one
NearestEven(r, numer, denom) ==
    /\ 2 * Abs(r * denom - numer) <= denom
    /\ 2 * Abs(r * denom - numer) = denom => r % 2 = 0

\* C25: returns_from_equity raises SchemaError when initial_cash <= 0 or
\* fewer than two equity points are given; otherwise it returns
\* len(equity) - 1 integers, the i-th being
\* (equity[i+1] - equity[i]) * 10000 / initial_cash rounded to the nearest
\* integer, a tie going to the even integer, for negative deltas as well.
C25_Returns ==
    Done("returns_from_equity") =>
      LET eq == call[1].args[1]
          c == call[1].args[2]
          ret == call[1].ret[1]
      IN  IF c <= 0 \/ Len(eq) < 2 THEN ~ret.ok
          ELSE /\ ret.ok
               /\ Len(ret.value) = Len(eq) - 1
               /\ \A i \in 1..(Len(eq) - 1) :
                    NearestEven(ret.value[i], (eq[i + 1] - eq[i]) * 10000, c)

\* 312.5 went down to 312 and -937.5 went to -938
C25_Witness ==
    /\ Done("returns_from_equity")
    /\ call[1].args = <<<<0, 1, 4, 1>>, 32>>
    /\ call[1].ret[1].ok
    /\ call[1].ret[1].value = <<312, 938, -938>>

\* fewer than two points, and a non-positive initial_cash, were refused
C25_WitnessRaise ==
    /\ Done("returns_from_equity")
    /\ Len(call[1].args[1]) = 1 /\ call[1].args[2] = 32
    /\ ~call[1].ret[1].ok

RECURSIVE SumSeq(_)
SumSeq(s) == IF s = <<>> THEN 0 ELSE Head(s) + SumSeq(Tail(s))

\* C26: for an equity curve of n samples, the sum of the returns times
\* initial_cash differs from 10000 * (last equity - first equity) by at most
\* half of initial_cash per return:
\* 2 * |sum * initial_cash - 10000 * (last - first)| <= (n - 1) * initial_cash.
C26_ReturnsSum ==
    (Done("returns_from_equity") /\ call[1].ret[1].ok) =>
      LET eq == call[1].args[1]
          c == call[1].args[2]
          returns == call[1].ret[1].value
      IN  2 * Abs(SumSeq(returns) * c - 10000 * (eq[Len(eq)] - eq[1]))
             <= (Len(eq) - 1) * c

\* three returns of 3333 each lose 1 of 30000 with initial_cash 3
C26_Witness ==
    /\ Done("returns_from_equity")
    /\ call[1].args = <<<<1, 2, 1, 2>>, 3>>
    /\ call[1].ret[1].ok
    /\ call[1].ret[1].value = <<3333, -3333, 3333>>

\* fee rates around the limits 0 and 10000, notionals around a whole fee
FeeBps == {-1, 0, 1, 25, 9999, 10000, 10001}
FeeNotionals == {-1, 0, 1, 399, 400, 401, 10000, 100000}

FeeCalls == { Call("fee_atoms", <<bps, n>>) : bps \in FeeBps, n \in FeeNotionals }

\* FixedBpsFeeModel(bps).fee_atoms(notional)
CallFeeAtoms ==
    /\ Pending("fee_atoms")
    /\ LET model == FixedBpsFeeModel(call[1].args[1])
       IN  call' = Some([call[1] EXCEPT !.ret =
                          Some(IF ~model.ok THEN model
                               ELSE fee_atoms(model.value, call[1].args[2]))])
    /\ UNCHANGED <<batcherVars, evlogVars, compileVars, seekVars, bookVars,
                 simVars, pipeVars, scopeVars>>

\* C27: FixedBpsFeeModel(bps).fee_atoms(notional) is
\* floor(notional * bps / 10000) for every notional >= 0 and bps in
\* [0, 10000], hence 0 <= fee <= notional; a bps outside [0, 10000] or a
\* negative notional raises SchemaError.
C27_FeeFloor ==
    Done("fee_atoms") =>
      LET bps == call[1].args[1]
          notional == call[1].args[2]
          ret == call[1].ret[1]
      IN  IF bps < 0 \/ bps > 10000 \/ notional < 0 THEN ~ret.ok
          ELSE /\ ret.ok
               /\ ret.value * 10000 <= notional * bps
               /\ notional * bps < (ret.value + 1) * 10000
               /\ 0 <= ret.value /\ ret.value <= notional

\* 399 at 25 bps is 0.9975 and costs nothing
C27_Witness ==
    /\ Done("fee_atoms")
    /\ call[1].args = <<25, 399>>
    /\ call[1].ret[1] = Ok(0)

\* a rate above 10000 bps was refused
C27_WitnessRaise ==
    /\ Done("fee_atoms")
    /\ call[1].args = <<10001, 400>>
    /\ ~call[1].ret[1].ok

\* decimal strings: unparsable, negative, zero, multiples and non-multiples
\* of both increments, and coefficients longer than the context's precision
QuantCoefs == {-5, 0, 5, 7, 10, 15, 1005, 10005, 10015}
QuantExps == -2..1
QuantValues == {InvalidDecimal} \cup { Dec(c, e) : c \in QuantCoefs, e \in QuantExps }

QuantCalls ==
    { Call(op, <<v>>) : op \in {"quantize_price", "quantize_amount"}, v \in QuantValues }

CallQuantizePrice ==
    /\ Pending("quantize_price")
    /\ call' = Some([call[1] EXCEPT !.ret = Some(quantize_price(call[1].args[1]))])
    /\ UNCHANGED <<batcherVars, evlogVars, compileVars, seekVars, bookVars,
                 simVars, pipeVars, scopeVars>>

CallQuantizeAmount ==
    /\ Pending("quantize_amount")
    /\ call' = Some([call[1] EXCEPT !.ret = Some(quantize_amount(call[1].args[1]))])
    /\ UNCHANGED <<batcherVars, evlogVars, compileVars, seekVars, bookVars,
                 simVars, pipeVars, scopeVars>>

\* the decimal a written on the exponent m <= a.exp
Scaled(a, m) == a.coef * Pow10(a.exp - m)

\* v is an exact integer multiple of increment
IsMultiple(v, increment) ==
    LET m == IF v.exp < increment.exp THEN v.exp ELSE increment.exp
    IN  Scaled(v, m) % Scaled(increment, m) = 0

\* t * increment = v
TimesIs(t, increment, v) ==
    LET m == IF v.exp < increment.exp THEN v.exp ELSE increment.exp
    IN  t * Scaled(increment, m) = Scaled(v, m)

\* what the claim demands of a finished quantize call on v
QuantizeAsClaimed(v, increment, allow_zero, ret) ==
    /\ ret.ok <=> /\ v.kind = "num"
                  /\ v.coef > 0 \/ (allow_zero /\ v.coef = 0)
                  /\ IsMultiple(v, increment)
    /\ ret.ok => TimesIs(ret.value, increment, v)

\* C28: quantize_price(v) succeeds if and only if v is finite, > 0 and an
\* exact integer multiple of price_increment, and then returns t with
\* t * price_increment = v; quantize_amount does the same for
\* amount_increment except that 0 is accepted and returns 0; every other
\* value is rejected with QuantizationError.
C28_Quantize ==
    /\ Done("quantize_price") =>
         QuantizeAsClaimed(call[1].args[1], price_increment, FALSE, call[1].ret[1])
    /\ Done("quantize_amount") =>
         QuantizeAsClaimed(call[1].args[1], amount_increment, TRUE, call[1].ret[1])

CalcCalls == ReturnsCalls \cup FeeCalls \cup QuantCalls

CalcInit == call \in { Some(c) : c \in CalcCalls }

InitCalc ==
    /\ BatcherIdle /\ EvlogIdle /\ CompileIdle /\ SeekIdle /\ BookIdle /\ SimIdle
    /\ PipeIdle /\ ScopeIdle /\ CalcInit

NextCalc ==
    \/ CallReturnsFromEquity
    \/ CallFeeAtoms
    \/ CallQuantizePrice
    \/ CallQuantizeAmount

SpecCalc == InitCalc /\ [][NextCalc]_vars

-----------------------------------------------------------------------------
(* Specification of compile_l2_csv over input files that change while it  *)
(* runs.  compile_l2_csv is cut where it reads the input files: the        *)
(* hashes of lines 150-153, the streaming of lines 155-208, each re-hash   *)
(* of lines 210-214, and the manifest of lines 215-243.                    *)

\* core/hashing.py hash_bytes: the SHA-256 digest, named by the bytes it
\* was taken of; distinct bytes have distinct digests
sha256(data) == [sha256 |-> data]

\* hash_file(path) when the file holds content
hash_file(content) == sha256(content)

\* one row of an input file: a valid update on line line_number
PipeRow(local_timestamp_us, body, line_number) ==
    L2Row(<<"binance", "BTCUSDT">>, 900 + line_number, local_timestamp_us, FALSE,
          body, line_number)

GoodBody == [side |-> BID, price |-> Dec(5, -1), amount |-> Dec(1, 0)]
BadBody == [side |-> BID, price |-> Dec(7, -1), amount |-> Dec(1, 0)]

\* what an input file may hold: nothing, one row, two rows of two batches,
\* a row followed by one whose price is no multiple of 0.5
FileContents ==
    { <<>>,
      <<PipeRow(1, GoodBody, 2)>>,
      <<PipeRow(1, GoodBody, 2), PipeRow(2, GoodBody, 3)>>,
      <<PipeRow(1, GoodBody, 2), PipeRow(2, BadBody, 3)>> }

\* the compile is given NumPaths input paths
NumPaths == 2

PipeInit ==
    /\ inputs \in [1..NumPaths -> FileContents]
    /\ hashed = None /\ manifest = None /\ first = None

\* lines 150-153: input_entries, one hash per path
PipeHash ==
    /\ compile = "idle" /\ hashed = None
    /\ hashed' = Some([sha256 |-> [i \in 1..NumPaths |-> hash_file(inputs[i])],
                       rehashed |-> <<>>])
    /\ compile' = "hashed"
    /\ UNCHANGED <<batcherVars, evlogVars, entries, idx, seekVars, bookVars,
                 simVars, calcVars, inputs, manifest, first, scopeVars>>

RECURSIVE Chain(_)
\* itertools.chain over the rows of the files
Chain(contents) ==
    IF contents = <<>> THEN <<>> ELSE Head(contents) \o Chain(Tail(contents))

\* lines 159-166: the index of the first file that has a row, 0 when none has
FirstWithRows(row_iters) ==
    IF \A i \in 1..Len(row_iters) : row_iters[i] = <<>> THEN 0
    ELSE CHOOSE k \in 1..Len(row_iters) :
           /\ row_iters[k] # <<>>
           /\ \A i \in 1..(k - 1) : row_iters[i] = <<>>

\* RowStreamAt that chains every file after the first one, whichever
\* file gave the first row
RowStreamAt_AfterFirst(row_iters, k) ==
    <<Head(row_iters[k])>> \o Tail(row_iters[k])
      \o Chain(SubSeq(row_iters, 2, Len(row_iters)))

\* line 194: itertools.chain([first_row], first_iter, *remaining_iters) when
\* file k gave the first row (lines 161-163)
RowStreamAt(row_iters, k) ==
    <<Head(row_iters[k])>> \o Tail(row_iters[k])
      \o Chain(SubSeq(row_iters, k + 1, Len(row_iters)))

\* lines 155-169 and 194: the rows handed to iter_l2_batches, <<>> when no
\* file has a row ("no rows in input files")
RowStream(row_iters) ==
    IF FirstWithRows(row_iters) = 0 THEN <<>>
    ELSE RowStreamAt(row_iters, FirstWithRows(row_iters))

\* an open that keeps what the file holds
Opened_Append(old) == old

\* Path.open("wb") on a file that holds old: the file is emptied
Opened(old) == <<>>

\* lines 171-192: the header the writer puts into the file it opens
StreamHeader(first_row) ==
    pack_header(0, hash_text_u64(first_row.exchange), hash_text_u64(first_row.symbol),
                Some(quantizer_hash_bytes)).value

\* lines 155-208: the rows the files hold now are streamed into the event
\* log and the index is written; without a row nothing is opened
PipeStream ==
    /\ compile = "hashed"
    /\ \E rs \in { RowStream(inputs) } :
         IF rs = <<>>
         THEN /\ compile' = "SchemaError"
              /\ UNCHANGED <<rows, gen, file, entries, written, wr, idx>>
         ELSE
           \E g \in { IterL2Batches(rs, failure_policy, quarantine_action,
                                     IF failure_policy = QUARANTINE THEN Some(<<>>)
                                     ELSE None) } :
           \E c \in { CompileBatches(Opened(file) \o StreamHeader(rs[1]), <<>>, g.yielded) } :
           \E w \in { write_index(c.entries) } :
             /\ rows' = rs
             /\ gen' = g
             /\ file' = c.file
             /\ entries' = c.entries
             /\ written' = SubSeq(g.yielded, 1, Len(c.entries))
             /\ wr' = "closed"
             /\ idx' = IF c.ok /\ g.raised = None THEN Some(w.bytes) ELSE idx
             /\ compile' = IF ~c.ok THEN "SchemaError"
                           ELSE IF g.raised # None THEN g.raised[1]
                           ELSE IF ~w.ok THEN "SchemaError"
                           ELSE "indexed"
    /\ UNCHANGED <<failure_policy, quarantine_action, rd, rpos, got,
                 seekVars, bookVars, simVars, calcVars, pipeVars, scopeVars>>

\* the comparison of lines 213-214 that looks at the first entry only
Rehash_FirstOnly(entry_sha256, current_hash, k) ==
    IF k = 1 /\ current_hash # entry_sha256 THEN "DeterminismError" ELSE "indexed"

\* lines 213-214 for the k-th entry
Rehash(entry_sha256, current_hash, k) ==
    IF current_hash # entry_sha256 THEN "DeterminismError" ELSE "indexed"

\* lines 210-214: one turn of the re-hash loop
PipeRehash ==
    /\ compile = "indexed"
    /\ Len(hashed[1].rehashed) < NumPaths
    /\ LET k == Len(hashed[1].rehashed) + 1
           current_hash == hash_file(inputs[k])
       IN  /\ hashed' = Some([hashed[1] EXCEPT !.rehashed = Append(@, current_hash)])
           /\ compile' = Rehash(hashed[1].sha256[k], current_hash, k)
    /\ UNCHANGED <<batcherVars, evlogVars, entries, idx, seekVars, bookVars,
                 simVars, calcVars, inputs, manifest, first, scopeVars>>

\* _manifest_payload
_manifest_payload(input_entries, f, index, record_count, first_row) ==
    LET payload ==
          [manifest_version |-> 1,
           compiler_version |-> 1,
           compiler_sha256 |-> hash_file("compiler.py"),
           inputs |-> input_entries,
           inputs_sha256 |-> sha256(input_entries),
           evlog |-> [path |-> "out.evlog", sha256 |-> hash_file(f)],
           index |-> [path |-> "out.idx", sha256 |-> hash_file(index)],
           record_count |-> record_count,
           exchange |-> first_row.exchange,
           symbol |-> first_row.symbol,
           exchange_id |-> hash_text_u64(first_row.exchange),
           symbol_id |-> hash_text_u64(first_row.symbol),
           quantizer |-> [price_increment |-> price_increment,
                          amount_increment |-> amount_increment,
                          sha256 |-> quantizer_hash_bytes],
           format_version |-> VERSION]
    IN  [payload |-> payload, manifest_sha256 |-> sha256(payload)]

\* lines 215-243: every input hashed as before; the manifest is written
PipeManifest ==
    /\ compile = "indexed"
    /\ Len(hashed[1].rehashed) = NumPaths
    /\ manifest' = Some(_manifest_payload(hashed[1].sha256, file, idx[1],
                                           Len(entries), rows[1]))
    /\ compile' = "ok"
    /\ UNCHANGED <<batcherVars, evlogVars, entries, idx, seekVars, bookVars,
                 simVars, calcVars, inputs, hashed, first, scopeVars>>

\* another process rewrites an input file while the compile runs
EnvModify ==
    /\ compile \in {"idle", "hashed", "indexed"}
    /\ \E i \in 1..NumPaths : \E content \in FileContents \ {inputs[i]} :
         inputs' = [inputs EXCEPT ![i] = content]
    /\ UNCHANGED <<batcherVars, evlogVars, compileVars, seekVars, bookVars,
                 simVars, calcVars, hashed, manifest, first, scopeVars>>

InitRehash ==
    /\ CompileInit /\ EvlogInit /\ CompileIdle /\ SeekIdle /\ BookIdle /\ SimIdle
    /\ CalcIdle /\ ScopeIdle /\ PipeInit

NextRehash == PipeHash \/ PipeStream \/ PipeRehash \/ PipeManifest \/ EnvModify

SpecRehash == InitRehash /\ [][NextRehash]_vars

\* C30: compile_l2_csv fails with DeterminismError whenever the SHA-256 of
\* an input file at the re-hash step differs from the hash taken before the
\* rows were streamed, and that compile writes no manifest.
C30_Rehash ==
    hashed # None =>
      \A k \in 1..Len(hashed[1].rehashed) :
        hashed[1].rehashed[k] # hashed[1].sha256[k] =>
          compile = "DeterminismError" /\ manifest = None

\* the second file changed after it was hashed; the first did not
C30_Witness ==
    /\ hashed # None
    /\ Len(hashed[1].rehashed) = 2
    /\ hashed[1].rehashed[1] = hashed[1].sha256[1]
    /\ hashed[1].rehashed[2] # hashed[1].sha256[2]
    /\ compile = "DeterminismError"
    /\ idx # None /\ manifest = None

\* no file changed and the manifest was written
C30_WitnessManifest ==
    /\ compile = "ok" /\ manifest # None
    /\ manifest[1].payload.inputs = hashed[1].rehashed

-----------------------------------------------------------------------------
(* Specification of two executions of the pipeline: compile_l2_csv on the  *)
(* input files, then run_backtest with a tape on the event log it wrote    *)
(* (cli/bt_compile.py, cli/bt_run.py), and the same again with the same    *)
(* arguments and the files the first execution left behind.                *)

TwiceRow(local_timestamp_us, is_snapshot, side, price, amount, line_number) ==
    L2Row(<<"binance", "BTCUSDT">>, 900 + line_number, local_timestamp_us, is_snapshot,
          [side |-> side, price |-> price, amount |-> amount], line_number)

\* a snapshot 5.0 x 2 / 5.5 x 2 and a smaller bid
FileA ==
    << TwiceRow(1, TRUE, BID, Dec(5, 0), Dec(2, 0), 2),
       TwiceRow(1, TRUE, ASK, Dec(55, -1), Dec(2, 0), 3),
       TwiceRow(2, FALSE, BID, Dec(5, 0), Dec(1, 0), 4) >>

\* the same with a row whose price is no multiple of 0.5
FileABad ==
    << FileA[1], FileA[2],
       TwiceRow(2, FALSE, BID, Dec(7, -1), Dec(1, 0), 4),
       TwiceRow(2, FALSE, BID, Dec(5, 0), Dec(1, 0), 5) >>

\* a book whose ask side is empty after the first batch
FileALate ==
    << TwiceRow(1, FALSE, BID, Dec(5, 0), Dec(2, 0), 2),
       TwiceRow(2, FALSE, ASK, Dec(55, -1), Dec(2, 0), 3),
       TwiceRow(3, FALSE, BID, Dec(5, 0), Dec(1, 0), 4) >>

FileB ==
    << TwiceRow(4, FALSE, ASK, Dec(55, -1), Dec(1, 0), 2),
       TwiceRow(5, FALSE, BID, Dec(5, 0), Dec(2, 0), 3) >>

FileBLong == FileB \o << TwiceRow(6, FALSE, ASK, Dec(6, 0), Dec(1, 0), 4) >>

TwiceInputs ==
    { <<a, b>> : a \in {FileA, FileABad, FileALate}, b \in {FileB, FileBLong, <<>>} }

TwiceStrategies ==
    RunStrategies \cup { RandomOrders(3, 8, 1, 2), RandomOrders(7, 100, 1, 1) }

TwiceInit ==
    /\ inputs \in TwiceInputs
    /\ hashed = None /\ manifest = None /\ first = None
    /\ \E cfg \in RunConfigs : config = Some(cfg)
    /\ \E s \in TwiceStrategies : strategy = Some(s)
    /\ bt = Some(FrameNew)
    /\ book = None /\ bcall = None

\* the strategy object built again from the arguments s was built from
NewStrategy(s) ==
    IF s.kind = "alternating" THEN Alternating(s.qty_lots)
    ELSE IF s.kind = "random"
    THEN RandomOrders(s.seed, s.order_pct, s.min_qty, s.max_qty)
    ELSE FixedOrders(s.orders)

SideName(side) == IF side = BID THEN "bid" ELSE "ask"

RECURSIVE ActionLines(_, _, _)
\* record_action and record_fill for the actions acts of the batch at ts
ActionLines(f, ts, acts) ==
    IF acts = <<>> THEN <<>>
    ELSE LET a == Head(acts) IN
         << [type |-> "action", ts_recv_ns |-> ts, action_id |-> a.action_id,
             side |-> SideName(a.order.side), qty_lots |-> a.order.qty_lots] >>
         \o (IF a.result = "fill"
             THEN << [type |-> "fill", ts_recv_ns |-> ts,
                      fill_id |-> a.fill_id_after, action_id |-> a.action_id,
                      side |-> SideName(f.fills[a.fill_id_after].side),
                      price_ticks |-> f.fills[a.fill_id_after].price_ticks,
                      qty_lots |-> f.fills[a.fill_id_after].qty_lots,
                      notional |-> f.fills[a.fill_id_after].notional,
                      fee_atoms |-> f.fills[a.fill_id_after].fee_atoms] >>
             ELSE <<>>)
         \o ActionLines(f, ts, Tail(acts))

RECURSIVE BatchLines(_, _, _)
\* the lines of the iterations recs, the first of which has left k - 1
\* equity samples before it
BatchLines(f, recs, k) ==
    IF recs = <<>> THEN <<>>
    ELSE LET rec == Head(recs) IN
         ActionLines(f, rec.ts_recv_ns, rec.actions)
         \o (IF rec.outcome = "processed"
             THEN << [type |-> "equity", ts_recv_ns |-> rec.ts_recv_ns,
                      portfolio |-> IF rec.actions = <<>> THEN None
                                    ELSE Some(rec.actions[Len(rec.actions)].after),
                      equity |-> f.equity_curve[k][2]] >>
             ELSE <<>>)
         \o BatchLines(f, Tail(recs), IF rec.outcome = "processed" THEN k + 1 ELSE k)

\* the tape of bt_run: the header written by TapeWriter.__enter__ into the
\* emptied file, then the lines of run_backtest
TapeLines(f, cfg) ==
    << [type |-> "header", fee_bps |-> cfg.fee_bps, initial_cash |-> cfg.initial_cash,
        initial_position |-> cfg.initial_position] >>
    \o BatchLines(f, f.batches, 1)

\* the execution has ended: the compile raised, or the backtest returned or
\* raised
PipelineEnded ==
    \/ compile \notin {"idle", "hashed", "indexed", "ok"}
    \/ compile = "ok" /\ bt[1].status \notin {"new", "running"}

\* what an execution leaves: the files and the results of run_backtest
Outputs ==
    [file |-> file, idx |-> idx, manifest |-> manifest,
     quarantine |-> gen.quarantine_sink,
     fills |-> bt[1].fills, equity_curve |-> bt[1].equity_curve,
     returns |-> bt[1].returns,
     tape |-> IF compile = "ok" THEN Some(TapeLines(bt[1], config[1])) ELSE None]

\* the first execution has ended and the second starts: new processes with
\* the same arguments, the same input files, and the output files as they are
PipeAgain ==
    /\ first = None /\ PipelineEnded
    /\ first' = Some(Outputs)
    /\ compile' = "idle" /\ hashed' = None
    /\ rows' = <<>> /\ entries' = <<>> /\ written' = <<>>
    /\ gen' = GenInit(IF failure_policy = QUARANTINE THEN Some(<<>>) ELSE None)
    /\ wr' = "new" /\ rd' = "new" /\ rpos' = 0 /\ got' = <<>>
    /\ bt' = Some(FrameNew)
    /\ book' = None
    /\ strategy' = Some(NewStrategy(strategy[1]))
    /\ UNCHANGED <<failure_policy, quarantine_action, file, idx, manifest, inputs,
                 config, bcall, seekVars, calcVars, scopeVars>>

InitTwice ==
    /\ CompileInit /\ EvlogInit /\ CompileIdle /\ SeekIdle /\ CalcIdle /\ ScopeIdle /\ TwiceInit

NextTwice ==
    \/ PipeHash
    \/ PipeStream
    \/ PipeRehash
    \/ PipeManifest
    \/ compile = "ok" /\ SimStart
    \/ compile = "ok" /\ SimBatch
    \/ compile = "ok" /\ SimEnd
    \/ PipeAgain

SpecTwice == InitTwice /\ [][NextTwice]_vars

-----------------------------------------------------------------------------
(* Specification of the with statement over an EvlogWriter, an EvlogReader *)
(* or a TapeWriter.  The statement calls __enter__; when __enter__ returns *)
(* the body runs and __exit__ is called however the body ends; when        *)
(* __enter__ raises, the statement ends without a call of __exit__.        *)

\* with statements executed over one object
MaxEnters == 2

\* the writers a scope is opened over: valid and invalid ids and hashes
ScopeWriters ==
    { [cls |-> "EvlogWriter", exchange_id |-> e, symbol_id |-> s, quantizer_hash |-> q] :
        e \in {-1, 0, 4660}, s \in {-1, 0, 22136},
        q \in {None, Some(quantizer_hash_bytes), Some(<<1, 2>>)} }

\* the readers: over a missing header, a whole header, a cut one, a wrong one
ScopeReaders ==
    { [cls |-> "EvlogReader", data |-> d] :
        d \in { <<>>, pack_header(0, 0, 0, None).value,
                SubSeq(pack_header(0, 0, 0, None).value, 1, 20), Zeros(64) } }

\* the tape writers: run_meta is None or a dict, given by its keys
ScopeTapes ==
    { [cls |-> "TapeWriter", run_meta |-> m] :
        m \in {None, Some({}), Some({"seed"}), Some({"type"}), Some({"seed", "type"})} }

\* the object after construction: no file, nothing open in the process
ScopeNew(obj) ==
    [obj |-> obj, _file |-> None, open |-> {}, at |-> "out", raised |-> None,
     enters |-> 0]

ScopeInit == scope \in { Some(ScopeNew(o)) : o \in ScopeWriters \cup ScopeReaders \cup ScopeTapes }

\* Path.open: a new handle is open in the process and stored in self._file
Open(s, fd) == [s EXCEPT !._file = Some(fd), !.open = @ \cup {fd}, !.enters = fd]

\* __enter__ returned: the body of the with statement runs
Entered(s) == [s EXCEPT !.at = "in", !.raised = None]

\* __enter__ raised: the with statement ends, __exit__ is not called
EnterRaised(s, err) == [s EXCEPT !.at = "out", !.raised = Some(err)]

\* EvlogWriter.__enter__
WriterScopeEnter(s) ==
    IF pack_header(0, s.obj.exchange_id, s.obj.symbol_id, s.obj.quantizer_hash).ok
    THEN Entered(Open(s, s.enters + 1))
    ELSE EnterRaised(Open(s, s.enters + 1), "SchemaError")

\* EvlogReader.__enter__
ReaderScopeEnter(s) ==
    IF read_header(s.obj.data).ok
    THEN Entered(Open(s, s.enters + 1))
    ELSE EnterRaised(Open(s, s.enters + 1), "SchemaError")

\* TapeWriter.__enter__
TapeScopeEnter(s) ==
    IF s._file # None THEN EnterRaised([s EXCEPT !.enters = @ + 1], "SchemaError")
    ELSE IF s.obj.run_meta # None /\ "type" \in s.obj.run_meta[1]
    THEN EnterRaised(Open(s, s.enters + 1), "SchemaError")
    ELSE Entered(Open(s, s.enters + 1))

\* __exit__ of the three classes: the file is closed and forgotten
ScopeExitOf(s, exc) ==
    [s EXCEPT !.at = "out", !.raised = exc,
              !.open = IF s._file # None THEN @ \ {s._file[1]} ELSE @,
              !._file = None]

\* a with statement over the object begins
ScopeEnter ==
    /\ scope # None /\ scope[1].at = "out" /\ scope[1].enters < MaxEnters
    /\ scope' = Some(CASE scope[1].obj.cls = "EvlogWriter" -> WriterScopeEnter(scope[1])
                       [] scope[1].obj.cls = "EvlogReader" -> ReaderScopeEnter(scope[1])
                       [] scope[1].obj.cls = "TapeWriter" -> TapeScopeEnter(scope[1]))
    /\ UNCHANGED <<batcherVars, evlogVars, compileVars, seekVars, bookVars,
                 simVars, calcVars, pipeVars>>

\* the body ends, by falling off its end or by an exception, and __exit__ runs
ScopeLeave ==
    /\ scope # None /\ scope[1].at = "in"
    /\ \E exc \in {None, Some("SchemaError")} :
         scope' = Some(ScopeExitOf(scope[1], exc))
    /\ UNCHANGED <<batcherVars, evlogVars, compileVars, seekVars, bookVars,
                 simVars, calcVars, pipeVars>>

InitScope ==
    /\ BatcherIdle /\ EvlogIdle /\ CompileIdle /\ SeekIdle /\ BookIdle /\ SimIdle
    /\ CalcIdle /\ PipeIdle /\ ScopeInit

NextScope == ScopeEnter \/ ScopeLeave

SpecScope == InitScope /\ [][NextScope]_vars

\* C31: EvlogWriter, EvlogReader and TapeWriter hold no open file handle
\* after any exit from their scope, the exits where scope entry itself fails
\* (invalid header on read, invalid quantizer_hash or ids on write, a
\* run_meta with a type key) included.
C31_NoOpenHandle ==
    scope # None /\ scope[1].at = "out" =>
        scope[1].open = {} /\ scope[1]._file = None

-----------------------------------------------------------------------------
(* Specification of single calls of write_index, read_index,               *)
(* Portfolio.apply_fill, _execute_market_order and the Sharpe metrics.     *)

\* most entries of an index
MaxIndexLen == 3

\* index entries in and out of order, negative fields included
IndexEntryLists ==
    UNION { [1..n -> { IndexEntry(t, o) : t \in {-1, 0, 5, 9}, o \in {-1, 64, 88, 136} }] :
              n \in 0..MaxIndexLen }

\* the entries as struct.pack lays them out, unchecked
RECURSIVE PackEntries(_)
PackEntries(es) ==
    IF es = <<>> THEN <<>>
    ELSE PackLE(Head(es).ts_recv_ns, 8) \o PackLE(Head(es).offset, 8)
           \o PackEntries(Tail(es))

IndexCalls ==
    { Call("write_index", <<es>>) : es \in IndexEntryLists }
      \cup { Call("read_index", <<_pack_header \o PackEntries(es)>>) : es \in IndexEntryLists }

\* write_index(path, entries): the count returned or the SchemaError of
\* lines 61-68, and the bytes the file holds afterwards
CallWriteIndex ==
    /\ Pending("write_index")
    /\ \E w \in { write_index(call[1].args[1]) } :
         call' = Some([call[1] EXCEPT !.ret =
                   Some([ok |-> w.ok, bytes |-> w.bytes,
                         value |-> IF w.ok THEN Len(call[1].args[1]) ELSE 0,
                         error |-> IF w.ok THEN "" ELSE "SchemaError"])])
    /\ UNCHANGED <<batcherVars, evlogVars, compileVars, seekVars, bookVars,
                 simVars, pipeVars, scopeVars>>

\* read_index(path) on a file holding the bytes
CallReadIndex ==
    /\ Pending("read_index")
    /\ call' = Some([call[1] EXCEPT !.ret = Some(read_index(call[1].args[1]))])
    /\ UNCHANGED <<batcherVars, evlogVars, compileVars, seekVars, bookVars,
                 simVars, pipeVars, scopeVars>>

\* an entry with no negative field is out of order after the one before it
OutOfOrder(es) ==
    \E i \in 2..Len(es) :
        /\ \A j \in 1..i : es[j].ts_recv_ns >= 0 /\ es[j].offset >= 0
        /\ es[i].ts_recv_ns < es[i - 1].ts_recv_ns \/ es[i].offset <= es[i - 1].offset

\* the entries a read_index call finds in its file
EntriesIn(bytes) ==
    [i \in 1..((Len(bytes) - INDEX_HEADER_SIZE) \div INDEX_ENTRY_SIZE) |->
        IndexEntry(UnpackQ(SubSeq(bytes, INDEX_HEADER_SIZE + 16 * i - 15,
                                  INDEX_HEADER_SIZE + 16 * i - 8)),
                   UnpackQ(SubSeq(bytes, INDEX_HEADER_SIZE + 16 * i - 7,
                                  INDEX_HEADER_SIZE + 16 * i)))]

\* C32: write_index and read_index reject an entry whose ts_recv_ns is lower
\* than the previous entry's or whose offset is not strictly greater than the
\* previous entry's, and the failure raised is an OrderingError.
C32_OrderingError ==
    /\ Done("write_index") /\ OutOfOrder(call[1].args[1]) =>
         ~call[1].ret[1].ok /\ call[1].ret[1].error = "OrderingError"
    /\ Done("read_index") /\ OutOfOrder(EntriesIn(call[1].args[1])) =>
         ~call[1].ret[1].ok /\ call[1].ret[1].error = "OrderingError"

\* what the code does: the entry is rejected, with a SchemaError
C32_Rejected ==
    /\ Done("write_index") /\ OutOfOrder(call[1].args[1]) =>
         ~call[1].ret[1].ok /\ call[1].ret[1].error = "SchemaError"
    /\ Done("read_index") /\ OutOfOrder(EntriesIn(call[1].args[1])) =>
         ~call[1].ret[1].ok /\ call[1].ret[1].error = "SchemaError"

\* the portfolios a call finds: cash and position on both sides of every test
UnitPortfolios ==
    { Portfolio(c, q) : c \in {-5, 0, 10, 11, 12, 22, 100}, q \in {-1, 0, 1, 2} }

\* calls of _execute_market_order on a snapshot of positive prices and sizes,
\* as _ensure_snapshot_ready and the book hand it over
ExecuteCalls ==
    { Call("_execute_market_order", <<o, s, p, bps, sh, mg, ig>>) :
        o \in { MarketOrder(sd, q) : sd \in {BID, ASK, 2}, q \in 0..3 },
        s \in { BookSnapshot(10, 2, 11, 2) },
        p \in UnitPortfolios, bps \in {0, 1000, 10000},
        sh \in BOOLEAN, mg \in BOOLEAN, ig \in BOOLEAN }

CallExecuteMarketOrder ==
    /\ Pending("_execute_market_order")
    /\ \E a \in { call[1].args } :
         call' = Some([call[1] EXCEPT !.ret =
                   Some(_execute_market_order(1000, a[1], a[2], a[3], a[4], a[5], a[6], a[7]))])
    /\ UNCHANGED <<batcherVars, evlogVars, compileVars, seekVars, bookVars,
                 simVars, pipeVars, scopeVars>>

\* the pre-trade check as the specification words it: a buy needs
\* cash >= notional + fee unless allow_margin, a sell needs position >= qty
\* unless allow_short
PreTradePasses(side, cash, position, qty, total, allow_short, allow_margin) ==
    IF side = BID THEN allow_margin \/ cash >= total
    ELSE allow_short \/ position >= qty

\* C33: Portfolio.apply_fill accepts exactly the fills that pass the engine's
\* pre-trade checks: for every portfolio, order and allow_margin/allow_short
\* setting, the cash/position check passes if and only if apply_fill would
\* succeed, so an order that passes the check is filled and apply_fill does
\* not raise inside _execute_market_order.
C33_ChecksAgree ==
    Done("_execute_market_order") =>
      LET order == call[1].args[1]
          snap == call[1].args[2]
          p == call[1].args[3]
          price == IF order.side = BID THEN snap.ask_px ELSE snap.bid_px
          fee == (price * order.qty_lots * call[1].args[4]) \div 10000
          passes == PreTradePasses(order.side, p.cash, p.position, order.qty_lots,
                                   price * order.qty_lots
                                     + IF order.side = BID THEN fee ELSE 0,
                                   call[1].args[5], call[1].args[6])
          ret == call[1].ret[1]
      IN  order.side \in {BID, ASK} /\ order.qty_lots \in 1..2 =>
            /\ passes <=> apply_fill(p, order.side, price, order.qty_lots, fee,
                                     call[1].args[5], call[1].args[6]).ok
            /\ passes => ret.raised = None /\ ret.fill # None
            /\ ~passes => ret.fill = None
                          /\ (ret.raised = None <=> call[1].args[7])

\* a buy that takes the last unit of cash passes the check and is applied
C33_Witness ==
    /\ Done("_execute_market_order")
    /\ call[1].args[1] = MarketOrder(BID, 1)
    /\ call[1].args[3] = Portfolio(12, 0)
    /\ call[1].args[4] = 1000
    /\ ~call[1].args[6]
    /\ call[1].ret[1].fill # None
    /\ call[1].ret[1].portfolio = Portfolio(0, 1)

\* a sell of more than the position is refused by both
C33_WitnessRefused ==
    /\ Done("_execute_market_order")
    /\ call[1].args[1] = MarketOrder(ASK, 2)
    /\ call[1].args[3] = Portfolio(100, 1)
    /\ ~call[1].args[5] /\ ~call[1].args[7]
    /\ call[1].ret[1].raised = Some("insufficient position for sell")

\* a call that writes the cash back before the position test of a sell
ApplyFillCall_EarlyWrite(p, side, price_ticks, qty_lots, fee, allow_short, allow_margin) ==
    [raised |-> IF apply_fill(p, side, price_ticks, qty_lots, fee, allow_short, allow_margin).ok
                THEN None
                ELSE Some(apply_fill(p, side, price_ticks, qty_lots, fee,
                                     allow_short, allow_margin).error),
     portfolio |-> IF apply_fill(p, side, price_ticks, qty_lots, fee, allow_short, allow_margin).ok
                   THEN apply_fill(p, side, price_ticks, qty_lots, fee,
                                   allow_short, allow_margin).value
                   ELSE IF side = ASK /\ qty_lots > 0 /\ price_ticks > 0 /\ fee >= 0
                   THEN Portfolio(p.cash + (price_ticks * qty_lots - fee), p.position)
                   ELSE p]

\* portfolio.apply_fill(...) on the object p: the SchemaError raised, if any,
\* and the object afterwards; self.cash and self.position are assigned at
\* lines 53-54 only, after the last raise
ApplyFillCall(p, side, price_ticks, qty_lots, fee, allow_short, allow_margin) ==
    [raised |-> IF apply_fill(p, side, price_ticks, qty_lots, fee, allow_short, allow_margin).ok
                THEN None
                ELSE Some(apply_fill(p, side, price_ticks, qty_lots, fee,
                                     allow_short, allow_margin).error),
     portfolio |-> IF apply_fill(p, side, price_ticks, qty_lots, fee, allow_short, allow_margin).ok
                   THEN apply_fill(p, side, price_ticks, qty_lots, fee,
                                   allow_short, allow_margin).value
                   ELSE p]

\* calls of apply_fill with valid and invalid arguments
ApplyFillCalls ==
    { Call("apply_fill", <<p, sd, px, q, fee, sh, mg>>) :
        p \in UnitPortfolios, sd \in {BID, ASK, 2}, px \in {0, 10}, q \in {0, 1, 2},
        fee \in {-1, 0, 2}, sh \in BOOLEAN, mg \in BOOLEAN }

CallApplyFill ==
    /\ Pending("apply_fill")
    /\ \E a \in { call[1].args } :
         call' = Some([call[1] EXCEPT !.ret =
                   Some(ApplyFillCall(a[1], a[2], a[3], a[4], a[5], a[6], a[7]))])
    /\ UNCHANGED <<batcherVars, evlogVars, compileVars, seekVars, bookVars,
                 simVars, pipeVars, scopeVars>>

\* the arguments of the call are those the claim lists as rejected
ApplyFillRejects(p, side, price_ticks, qty_lots, fee, allow_short, allow_margin) ==
    \/ qty_lots <= 0 \/ price_ticks <= 0 \/ fee < 0
    \/ side \notin {BID, ASK}
    \/ side = BID /\ ~allow_margin /\ p.cash < price_ticks * qty_lots + fee
    \/ side = ASK /\ ~allow_short /\ p.position < qty_lots

\* C38: a Portfolio.apply_fill call that raises SchemaError (non-positive qty
\* or price, negative fee, insufficient cash or position, invalid side) leaves
\* cash and position unchanged; each of the listed cases raises.
C38_RaiseKeepsPortfolio ==
    Done("apply_fill") =>
      /\ call[1].ret[1].raised # None => call[1].ret[1].portfolio = call[1].args[1]
      /\ ApplyFillRejects(call[1].args[1], call[1].args[2], call[1].args[3],
                          call[1].args[4], call[1].args[5], call[1].args[6],
                          call[1].args[7])
           <=> call[1].ret[1].raised # None

\* a sell of two lots from a position of one, short selling not allowed
C38_Witness ==
    /\ Done("apply_fill")
    /\ call[1].args[1] = Portfolio(100, 1)
    /\ call[1].args[2] = ASK /\ call[1].args[3] = 10 /\ call[1].args[4] = 2
    /\ call[1].args[5] = 0 /\ ~call[1].args[6]
    /\ call[1].ret[1].raised = Some("insufficient position for sell")
    /\ call[1].ret[1].portfolio = Portfolio(100, 1)

\* experiments/psr_dsr.py
_BPS_SCALE == 10000

\* Python floats are binary floating point with a 53-bit significand, every
\* operation rounded to nearest, ties to even; the model keeps the rounding
\* and scales the significand down to FloatPrec bits.  A float is m * 2^e
\* with 2^(FloatPrec-1) <= |m| < 2^FloatPrec, or m = 0; the exponent range
\* of a double is not reached by the values computed here.
FloatPrec == 6

RECURSIVE Pow2(_)
Pow2(n) == IF n = 0 THEN 1 ELSE 2 * Pow2(n - 1)

RECURSIVE Bits(_)
\* the number of binary digits of n > 0
Bits(n) == IF n < 2 THEN 1 ELSE 1 + Bits(n \div 2)

FZero == [m |-> 0, e |-> 0]

\* the significand reached 2^FloatPrec by rounding up
FCarry(sign, m, e) ==
    IF m = Pow2(FloatPrec) THEN [m |-> sign * Pow2(FloatPrec - 1), e |-> e + 1]
    ELSE [m |-> sign * m, e |-> e]

\* 1 when the quotient q with remainder r is rounded up: above the half, or
\* at the half with something beyond it, or at the half with q odd
FUp(q, r, half, sticky) ==
    IF r > half \/ (r = half /\ (sticky \/ q % 2 = 1)) THEN 1 ELSE 0

\* sign * (n * 2^e, plus something less than 2^e when sticky), n > 0, rounded
\* to FloatPrec bits
FRound(sign, n, e, sticky) ==
    IF n = 0 THEN FZero
    ELSE IF Bits(n) <= FloatPrec
    THEN [m |-> sign * n * Pow2(FloatPrec - Bits(n)), e |-> e - (FloatPrec - Bits(n))]
    ELSE FCarry(sign,
                (n \div Pow2(Bits(n) - FloatPrec))
                  + FUp(n \div Pow2(Bits(n) - FloatPrec), n % Pow2(Bits(n) - FloatPrec),
                        Pow2(Bits(n) - FloatPrec - 1), sticky),
                e + (Bits(n) - FloatPrec))

Sign(n) == IF n < 0 THEN -1 ELSE 1

\* float(n) of an integer
FromInt(n) == FRound(Sign(n), Abs(n), 0, FALSE)

RECURSIVE FDivInt(_, _, _, _)
\* sign * (a / b) * 2^e for integers a >= 0, b > 0, rounded once
FDivInt(sign, a, b, e) ==
    IF a = 0 THEN FZero
    ELSE IF a < b * Pow2(FloatPrec + 1) THEN FDivInt(sign, 2 * a, b, e - 1)
    ELSE FRound(sign, a \div b, e, a % b # 0)

\* x / y, y # 0
FDiv(x, y) == FDivInt(Sign(x.m) * Sign(y.m), Abs(x.m), Abs(y.m), x.e - y.e)

\* x + y with x.e >= y.e: a y too small to reach the rounding leaves x
FAddOrdered(x, y) ==
    IF x.e - y.e > FloatPrec + 2 THEN x
    ELSE FRound(Sign(x.m * Pow2(x.e - y.e) + y.m),
                Abs(x.m * Pow2(x.e - y.e) + y.m), y.e, FALSE)

\* x + y
FAdd(x, y) ==
    IF x.m = 0 THEN y
    ELSE IF y.m = 0 THEN x
    ELSE IF x.e >= y.e THEN FAddOrdered(x, y) ELSE FAddOrdered(y, x)

FNeg(x) == [m |-> -x.m, e |-> x.e]

\* x - y
FSub(x, y) == FAdd(x, FNeg(y))

\* x * y
FMul(x, y) == FRound(Sign(x.m) * Sign(y.m), Abs(x.m) * Abs(y.m), x.e + y.e, FALSE)

RECURSIVE ISqrt(_, _, _)
\* the integer square root of n, known to lie in lo..hi
ISqrt(n, lo, hi) ==
    IF lo = hi THEN lo
    ELSE IF ((lo + hi + 1) \div 2) * ((lo + hi + 1) \div 2) <= n
    THEN ISqrt(n, (lo + hi + 1) \div 2, hi)
    ELSE ISqrt(n, lo, (lo + hi + 1) \div 2 - 1)

\* the square root of n * 2^e, e even, n of at least 2 * FloatPrec + 2 bits
FSqrtScaled(n, e) ==
    FRound(1, ISqrt(n, 0, Pow2(15) - 1), e \div 2,
           ISqrt(n, 0, Pow2(15) - 1) * ISqrt(n, 0, Pow2(15) - 1) # n)

RECURSIVE FSqrtInt(_, _)
\* math.sqrt(n * 2^e) for an integer n > 0
FSqrtInt(n, e) ==
    IF Bits(n) < 2 * FloatPrec + 2 THEN FSqrtInt(4 * n, e - 2)
    ELSE IF e % 2 = 0 THEN FSqrtScaled(n, e)
    ELSE FSqrtScaled(2 * n, e - 1)

\* math.sqrt(x), x > 0
FSqrt(x) == FSqrtInt(x.m, x.e)

RECURSIVE IntPow(_, _)
IntPow(n, k) == IF k = 0 THEN 1 ELSE n * IntPow(n, k - 1)

\* x ** k for an integer k in 2..4: the exact power, rounded once
FPowInt(x, k) ==
    FRound(IF k % 2 = 0 THEN 1 ELSE Sign(x.m), IntPow(Abs(x.m), k), k * x.e, FALSE)

\* x ** 1.5 for x > 0: the square root of the exact cube, rounded once
FPow15(x) == FSqrtInt(IntPow(x.m, 3), 3 * x.e)

\* _prepare_returns: int(value) / _BPS_SCALE for each value
_prepare_returns(returns) ==
    IF returns = <<>> THEN Err("returns must be non-empty")
    ELSE Ok([i \in 1..Len(returns) |->
               FDivInt(Sign(returns[i]), Abs(returns[i]), _BPS_SCALE, 0)])

RECURSIVE FSum(_, _)
\* sum(values): the values are added from left to right
FSum(values, acc) ==
    IF values = <<>> THEN acc ELSE FSum(Tail(values), FAdd(acc, Head(values)))

_mean(values) == FDiv(FSum(values, FZero), FromInt(Len(values)))

RECURSIVE VarianceAcc(_, _, _)
\* the loop of _variance
VarianceAcc(values, mean, acc) ==
    IF values = <<>> THEN acc
    ELSE VarianceAcc(Tail(values), mean,
                     FAdd(acc, FMul(FSub(Head(values), mean), FSub(Head(values), mean))))

_variance(values, mean) ==
    FDiv(VarianceAcc(values, mean, FZero), FromInt(Len(values) - 1))

RECURSIVE MomentAcc(_, _, _, _)
\* the loop of _moment
MomentAcc(values, mean, power, acc) ==
    IF values = <<>> THEN acc
    ELSE MomentAcc(Tail(values), mean, power,
                   FAdd(acc, FPowInt(FSub(Head(values), mean), power)))

_moment(values, mean, power) ==
    FDiv(MomentAcc(values, mean, power, FZero), FromInt(Len(values)))

\* lines 53-55 of sharpe_ratio
SharpeOf(mean, var) == IF var.m <= 0 THEN FZero ELSE FDiv(mean, FSqrt(var))

\* sharpe_ratio: the float returned or the SchemaError raised
sharpe_ratio(returns) ==
    IF ~_prepare_returns(returns).ok THEN _prepare_returns(returns)
    ELSE IF Len(returns) < 2 THEN Err("insufficient returns for Sharpe")
    ELSE Ok(SharpeOf(_mean(_prepare_returns(returns).value),
                     _variance(_prepare_returns(returns).value,
                               _mean(_prepare_returns(returns).value))))

\* lines 63-70 of _skew_kurtosis
SkewKurtosisOf(m2, m3, m4) ==
    IF m2.m <= 0 THEN Err("zero variance returns")
    ELSE Ok([skew |-> FDiv(m3, FPow15(m2)), kurtosis |-> FDiv(m4, FMul(m2, m2))])

\* lines 62-70 of _skew_kurtosis
SkewKurtosisAt(values, mean) ==
    SkewKurtosisOf(_moment(values, mean, 2), _moment(values, mean, 3),
                   _moment(values, mean, 4))

_skew_kurtosis(returns) ==
    IF ~_prepare_returns(returns).ok THEN _prepare_returns(returns)
    ELSE IF Len(returns) < 3 THEN Err("insufficient returns for skew/kurtosis")
    ELSE SkewKurtosisAt(_prepare_returns(returns).value,
                        _mean(_prepare_returns(returns).value))

\* line 133: 1.0 - skew * sr_hat + ((kurtosis - 1.0) / 4.0) * sr_hat * sr_hat
PsrDenom(sr_hat, skew, kurtosis) ==
    FAdd(FSub(FromInt(1), FMul(skew, sr_hat)),
         FMul(FMul(FDiv(FSub(kurtosis, FromInt(1)), FromInt(4)), sr_hat), sr_hat))

_psr_denominator(sr_hat, skew, kurtosis) ==
    IF PsrDenom(sr_hat, skew, kurtosis).m <= 0 THEN Err("invalid PSR denominator")
    ELSE Ok(FSqrt(PsrDenom(sr_hat, skew, kurtosis)))

\* lines 149-150: _norm_cdf(z), the value named by its argument
PsrValue(sr_hat, sr_benchmark, n, denom) ==
    IF ~denom.ok THEN denom
    ELSE Ok([norm_cdf |-> FDiv(FMul(FSub(sr_hat, sr_benchmark), FSqrt(FromInt(n - 1))),
                               denom.value)])

\* lines 147-150
PsrFrom(sr_hat, sk, sr_benchmark, n) ==
    IF ~sk.ok THEN sk
    ELSE PsrValue(sr_hat, sr_benchmark, n,
                  _psr_denominator(sr_hat, sk.value.skew, sk.value.kurtosis))

\* probabilistic_sharpe_ratio with a finite benchmark
probabilistic_sharpe_ratio(returns, sr_benchmark) ==
    IF Len(returns) < 3 THEN Err("insufficient returns for PSR")
    ELSE PsrFrom(sharpe_ratio(returns).value, _skew_kurtosis(returns),
                 sr_benchmark, Len(returns))

\* deflated_sharpe_ratio with a finite benchmark and n_trials <= 1, where
\* sr_star is the benchmark (line 167)
deflated_sharpe_ratio(returns, sr_benchmark, n_trials) ==
    IF n_trials < 1 THEN Err("n_trials must be >= 1")
    ELSE IF Len(returns) < 3 THEN Err("insufficient returns for DSR")
    ELSE PsrFrom(sharpe_ratio(returns).value, _skew_kurtosis(returns),
                 sr_benchmark, Len(returns))

\* longest sequence of returns handed to the metrics
MaxReturnsLen == 4

ReturnsLists == UNION { [1..n -> {-3, 0, 1, 7, 61}] : n \in 0..MaxReturnsLen }

SharpeCalls ==
    { Call("sharpe_ratio", <<r>>) : r \in ReturnsLists }
      \cup { Call("probabilistic_sharpe_ratio", <<r>>) : r \in ReturnsLists }
      \cup { Call("deflated_sharpe_ratio", <<r, n>>) : r \in ReturnsLists, n \in {0, 1} }

CallSharpeRatio ==
    /\ Pending("sharpe_ratio")
    /\ call' = Some([call[1] EXCEPT !.ret = Some(sharpe_ratio(call[1].args[1]))])
    /\ UNCHANGED <<batcherVars, evlogVars, compileVars, seekVars, bookVars,
                 simVars, pipeVars, scopeVars>>

\* probabilistic_sharpe_ratio(returns, sr_benchmark=0.0)
CallPsr ==
    /\ Pending("probabilistic_sharpe_ratio")
    /\ call' = Some([call[1] EXCEPT !.ret =
                       Some(probabilistic_sharpe_ratio(call[1].args[1], FZero))])
    /\ UNCHANGED <<batcherVars, evlogVars, compileVars, seekVars, bookVars,
                 simVars, pipeVars, scopeVars>>

\* deflated_sharpe_ratio(returns, sr_benchmark=0.0, n_trials=n)
CallDsr ==
    /\ Pending("deflated_sharpe_ratio")
    /\ call' = Some([call[1] EXCEPT !.ret =
                       Some(deflated_sharpe_ratio(call[1].args[1], FZero, call[1].args[2]))])
    /\ UNCHANGED <<batcherVars, evlogVars, compileVars, seekVars, bookVars,
                 simVars, pipeVars, scopeVars>>

\* all the returns are one value
AllEqual(returns) == \A i \in 1..Len(returns) : returns[i] = returns[1]

\* C34: sharpe_ratio requires at least 2 returns and returns 0 when the
\* sample variance is zero; probabilistic_sharpe_ratio and
\* deflated_sharpe_ratio require at least 3 returns and fail with SchemaError
\* when all returns are equal (zero variance).
C34_ZeroVariance ==
    /\ Done("sharpe_ratio") =>
         /\ Len(call[1].args[1]) < 2 => ~call[1].ret[1].ok
         /\ Len(call[1].args[1]) >= 2 /\ AllEqual(call[1].args[1]) =>
              call[1].ret[1].ok /\ call[1].ret[1].value = FZero
    /\ Done("probabilistic_sharpe_ratio") =>
         /\ Len(call[1].args[1]) < 3 => ~call[1].ret[1].ok
         /\ Len(call[1].args[1]) >= 3 /\ AllEqual(call[1].args[1]) => ~call[1].ret[1].ok
    /\ Done("deflated_sharpe_ratio") /\ call[1].args[2] = 1 =>
         /\ Len(call[1].args[1]) < 3 => ~call[1].ret[1].ok
         /\ Len(call[1].args[1]) >= 3 /\ AllEqual(call[1].args[1]) => ~call[1].ret[1].ok

\* the part of C34 on the number of returns
C34_Lengths ==
    /\ Done("sharpe_ratio") =>
         (Len(call[1].args[1]) < 2 <=> ~call[1].ret[1].ok)
    /\ Done("probabilistic_sharpe_ratio") /\ Len(call[1].args[1]) < 3 => ~call[1].ret[1].ok
    /\ Done("deflated_sharpe_ratio") /\ Len(call[1].args[1]) < 3 => ~call[1].ret[1].ok

\* one call, of any of the functions
UnitInit ==
    \/ call \in { Some(c) : c \in IndexCalls }
    \/ call \in { Some(c) : c \in ExecuteCalls }
    \/ call \in { Some(c) : c \in ApplyFillCalls }
    \/ call \in { Some(c) : c \in SharpeCalls }

InitUnit ==
    /\ BatcherIdle /\ EvlogIdle /\ CompileIdle /\ SeekIdle /\ BookIdle /\ SimIdle
    /\ PipeIdle /\ ScopeIdle /\ UnitInit

NextUnit ==
    \/ CallWriteIndex
    \/ CallReadIndex
    \/ CallExecuteMarketOrder
    \/ CallApplyFill
    \/ CallSharpeRatio
    \/ CallPsr
    \/ CallDsr

SpecUnit == InitUnit /\ [][NextUnit]_vars

-----------------------------------------------------------------------------
(* Specification of run_backtest over fee rates, risk flags and strategies *)
(* that place two orders on a batch                                        *)

MaxLedgerBatches == 2

\* 12 quote atoms buy one lot at 11 with a fee of 1 and 30 buy two; the fee
\* rates are none, 10 % and the largest FixedBpsFeeModel accepts
LedgerConfigs ==
    { RunConfig(c, p, sh, mg, FALSE, ig, bps) :
        c \in {12, 30}, p \in {-1, 0, 1}, sh \in BOOLEAN, mg \in BOOLEAN,
        ig \in BOOLEAN, bps \in {0, 1000, 10000} }

LedgerStrategies ==
    { Alternating(1),
      FixedOrders(<<MarketOrder(BID, 1), MarketOrder(BID, 1)>>),
      FixedOrders(<<MarketOrder(ASK, 1), MarketOrder(ASK, 1)>>),
      FixedOrders(<<MarketOrder(BID, 2), MarketOrder(ASK, 1)>>),
      FixedOrders(<<MarketOrder(ASK, 1), MarketOrder(BID, 2)>>),
      RandomOrders(7, 100, 1, 1) }

\* a snapshot 10 x 1 / 11 x 1, sizes 2 on both sides, size 2 on the bid only
LedgerBodies ==
    { [resets_book |-> TRUE,
       updates |-> <<L2Update(BID, 10, 1, TRUE), L2Update(ASK, 11, 1, TRUE)>>],
      [resets_book |-> FALSE,
       updates |-> <<L2Update(BID, 10, 2, FALSE), L2Update(ASK, 11, 2, FALSE)>>],
      [resets_book |-> FALSE, updates |-> <<L2Update(BID, 10, 2, FALSE)>>] }

LedgerLogs ==
    UNION { { LogOf(bodies) : bodies \in [1..n -> LedgerBodies] } :
            n \in 0..MaxLedgerBatches }

LedgerInit ==
    /\ \E bs \in LedgerLogs :
         /\ written = bs
         /\ file = LogFile(bs)
    /\ wr = "closed" /\ rd = "new" /\ rpos = 0 /\ got = <<>>
    /\ \E cfg \in LedgerConfigs : config = Some(cfg)
    /\ \E s \in LedgerStrategies : strategy = Some(s)
    /\ bt = Some(FrameNew)
    /\ book = None /\ bcall = None

InitLedger == BatcherIdle /\ CompileIdle /\ SeekIdle /\ LedgerInit /\ CalcIdle /\ PipeIdle /\ ScopeIdle

NextLedger == SimStart \/ SimBatch \/ SimEnd

SpecLedger == InitLedger /\ [][NextLedger]_vars

\* the run has a portfolio: lines 149-152 were reached
HasPortfolio(f) ==
    /\ f.status # "new"
    /\ f.raised \notin { Some("initial_cash must be positive"),
                         Some("initial_position short not allowed") }

\* the portfolios the run has had: the current one and the one before and
\* after each action
PortfoliosOf(f) ==
    { f.portfolio }
    \cup { f.batches[ij[1]].actions[ij[2]].before : ij \in ActionsOf(f) }
    \cup { f.batches[ij[1]].actions[ij[2]].after : ij \in ActionsOf(f) }

\* C35: with allow_margin false the cash of the portfolio is never negative
\* and with allow_short false its position is never negative, at the start
\* of the run and before and after every action, whatever the strategy, the
\* fee rate (0 to 10000 bps) and ignore_risk_rejects.
C35_NoDebt ==
    (bt # None /\ HasPortfolio(bt[1])) =>
       \A p \in PortfoliosOf(bt[1]) :
          /\ ~config[1].allow_margin => p.cash >= 0
          /\ ~config[1].allow_short => p.position >= 0

\* a buy was refused for lack of cash and the run went on to sell its last
\* lot at the largest fee rate, which left the cash where it was
C35_Witness ==
    /\ bt # None /\ ~config[1].allow_margin /\ ~config[1].allow_short
    /\ config[1].fee_bps = 10000 /\ config[1].ignore_risk_rejects
    /\ \E ij \in ActionsOf(bt[1]) :
         /\ bt[1].batches[ij[1]].actions[ij[2]].result = "none"
         /\ bt[1].batches[ij[1]].actions[ij[2]].order.side = BID
    /\ \E ij \in FillingActions(bt[1]) :
         /\ bt[1].batches[ij[1]].actions[ij[2]].order.side = ASK
         /\ bt[1].batches[ij[1]].actions[ij[2]].after.position = 0
         /\ bt[1].batches[ij[1]].actions[ij[2]].after.cash
              = bt[1].batches[ij[1]].actions[ij[2]].before.cash

\* a run that starts short without allow_short ends before its first batch
C35_WitnessShort ==
    /\ bt # None /\ ~config[1].allow_short /\ config[1].initial_position < 0
    /\ bt[1].raised = Some("initial_position short not allowed")

\* the first n fills of the run
FirstFills(f, n) == SubSeq(f.fills, 1, n)

\* C37: at every point of a run the portfolio is what the fills recorded so
\* far leave of the initial cash and position: cash = initial_cash - the
\* sum over buy fills of (notional + fee) + the sum over sell fills of
\* (notional - fee), position = initial_position + the lots bought - the
\* lots sold.  The points are the end of each handler and the end of each
\* action (after), with the fills recorded up to it (fill_id_after).
C37_Ledger ==
    (bt # None /\ HasPortfolio(bt[1])) =>
       /\ bt[1].portfolio
            = PortfolioFromFills(config[1].initial_cash, config[1].initial_position,
                                 bt[1].fills)
       /\ \A ij \in ActionsOf(bt[1]) :
            LET a == bt[1].batches[ij[1]].actions[ij[2]] IN
            /\ a.fill_id_after <= Len(bt[1].fills)
            /\ a.after = PortfolioFromFills(config[1].initial_cash,
                                            config[1].initial_position,
                                            FirstFills(bt[1], a.fill_id_after))

\* a run bought and sold with a fee: three fills, the last one a sell, and
\* the cash below the initial cash by the fees and the spread
C37_Witness ==
    /\ bt # None /\ config[1].fee_bps = 1000 /\ config[1].initial_position = 0
    /\ Len(bt[1].fills) = 3
    /\ bt[1].fills[1].side = BID /\ bt[1].fills[3].side = ASK
    /\ bt[1].fills[3].fee_atoms > 0
    /\ bt[1].portfolio.cash < config[1].initial_cash

\* the book after the batches bs, from the empty book of line 153
RECURSIVE BookAfter(_, _)
BookAfter(b, bs) ==
    IF bs = <<>> THEN b ELSE BookAfter(apply_l2_batch(b, Head(bs)).book, Tail(bs))

\* C39: every order of a batch is checked and priced against the batch's
\* snapshot as apply_l2_batch left it.  The order book after any number of
\* iterations is the book the batches read so far make of the empty book,
\* whatever was filled; the top recorded for an iteration is that book's
\* top; and an order is refused as exceeding the top-of-book size exactly
\* when its quantity exceeds the size of that top, whatever earlier orders
\* of the batch or earlier batches took.
C39_SnapshotUnmodified ==
    (bt # None /\ book # None) =>
       /\ Len(bt[1].batches) = Len(got)
       /\ book[1] = BookAfter(BookPy(TRUE), got)
       /\ \A i \in 1..Len(got) :
            bt[1].batches[i].outcome # "rejected" =>
               bt[1].batches[i].top
                  = best_bid_ask(BookAfter(BookPy(TRUE), SubSeq(got, 1, i)))
       /\ \A ij \in ActionsOf(bt[1]) :
            LET rec == bt[1].batches[ij[1]]
                a == rec.actions[ij[2]]
            IN  /\ a.order.qty_lots > Available(rec.top, a.order.side)
                     <=> /\ a.result = "raised"
                         /\ bt[1].raised = Some("market order exceeds top-of-book size")
                /\ a.result = "fill" =>
                     bt[1].fills[a.fill_id_after].price_ticks
                        = TradePrice(rec.top, a.order.side)

\* two buys of one lot were both filled at 11 on a batch whose best ask
\* offered one lot, and a buy of the next batch, which left the ask side
\* alone, was filled from the same single lot
C39_Witness ==
    /\ bt # None /\ Len(bt[1].batches) = 2 /\ Len(bt[1].fills) >= 3
    /\ bt[1].batches[1].top[4] = Some(1)
    /\ Len(bt[1].batches[1].actions) = 2
    /\ \A j \in 1..2 : /\ bt[1].batches[1].actions[j].result = "fill"
                       /\ bt[1].batches[1].actions[j].order = MarketOrder(BID, 1)
    /\ ~got[2].resets_book
    /\ bt[1].batches[2].top[4] = Some(1)
    /\ bt[1].batches[2].actions[1].result = "fill"
    /\ bt[1].fills[3].side = BID /\ bt[1].fills[3].price_ticks = 11

\* the payload_len field of the record that starts at offset pos of f
PayloadLenAt(f, pos) == UnpackLE(SubSeq(f, pos + 5, pos + 8))

\* C36: the event log grows by whole records only.  A write_l2_batch call
\* that raises leaves the file as it was; a call that returns appends
\* exactly 8 + 24 + 24 * n bytes for a batch of n updates and changes no
\* earlier byte, so that tell() is strictly larger after it, and the
\* payload length the record declares is 24 + 24 * n, a multiple of 8.
C36_WholeRecords ==
    [][ (wr = "open" /\ wr' # "closed") =>
          \/ /\ wr' = "raised"
             /\ file' = file /\ written' = written
          \/ /\ wr' = "open"
             /\ Len(written') = Len(written) + 1
             /\ Len(file') = Len(file) + 8 + 24
                               + 24 * Len(written'[Len(written')].updates)
             /\ Len(file') > Len(file)
             /\ SubSeq(file', 1, Len(file)) = file
             /\ PayloadLenAt(file', Len(file))
                  = 24 + 24 * Len(written'[Len(written')].updates)
             /\ PayloadLenAt(file', Len(file)) % 8 = 0 ]_vars

\* a batch of two updates was appended and the next call was refused: the
\* file holds the header and the 80 bytes of one record
C36_Witness ==
    /\ wr = "raised" /\ Len(written) = 1
    /\ Len(written[1].updates) = 2
    /\ Len(file) = HEADER_V1_SIZE + 80

-----------------------------------------------------------------------------
(* Specification of compile_l2_csv on several input files that stay as    *)
(* they are: lines 150-243 with an output prefix                           *)

MultiRow(local_timestamp_us, is_snapshot, body, line_number) ==
    L2Row(<<"binance", "BTCUSDT">>, 900 + line_number, local_timestamp_us,
          is_snapshot, body, line_number)

\* what an input file may hold: no row; a row at 1; a row at 2; rows at 1
\* and 2; a snapshot row at 2; a row at 2 whose price is no multiple of 0.5
\* and a row at 3
MultiContents ==
    { <<>>,
      <<MultiRow(1, FALSE, GoodBody, 2)>>,
      <<MultiRow(2, FALSE, GoodBody, 2)>>,
      <<MultiRow(1, FALSE, GoodBody, 2), MultiRow(2, FALSE, GoodBody, 3)>>,
      <<MultiRow(2, TRUE, GoodBody, 2)>>,
      <<MultiRow(2, FALSE, BadBody, 2), MultiRow(3, FALSE, GoodBody, 3)>> }

MultiInit ==
    /\ inputs \in [1..NumPaths -> MultiContents]
    /\ hashed = None /\ manifest = None /\ first = None

InitMulti ==
    /\ CompileInit /\ EvlogInit /\ CompileIdle /\ SeekIdle /\ BookIdle /\ SimIdle
    /\ CalcIdle /\ ScopeIdle /\ MultiInit

NextMulti == PipeHash \/ PipeStream \/ PipeRehash \/ PipeManifest

SpecMulti == InitMulti /\ [][NextMulti]_vars

\* the rows rs as iter_l2_rows reads them from one file: row k is on line
\* k + 1, after the header
OneFile(rs) == [k \in 1..Len(rs) |-> [rs[k] EXCEPT !.line_number = k + 1]]

\* the batches iter_l2_batches makes of the rows of the single file content
BatchesOfOne(content) ==
    IterL2Batches(RowStream(<<content>>), failure_policy, quarantine_action,
                  IF failure_policy = QUARANTINE THEN Some(<<>>) ELSE None)

\* the event log and index entries of the batches bs under the header of
\* first_row
LogOfOne(first_row, bs) == CompileBatches(StreamHeader(first_row), <<>>, bs)

\* C40: compiling the input files f1, ..., fn yields the batches, the event
\* log and the index entries that compiling one file holding their rows in
\* that order yields, and ends with the same error when it ends with one:
\* a run of equal local timestamps across a file boundary is one batch and
\* a decrease across a boundary is the ordering violation it is within a
\* file.
C40_Concatenation ==
    compile \notin {"idle", "hashed"} =>
      IF Chain(inputs) = <<>>
      THEN compile = "SchemaError" /\ file = <<>> /\ gen.yielded = <<>>
      ELSE /\ gen.yielded = BatchesOfOne(OneFile(Chain(inputs))).yielded
           /\ gen.raised = BatchesOfOne(OneFile(Chain(inputs))).raised
           /\ file = LogOfOne(Chain(inputs)[1], gen.yielded).file
           /\ entries = LogOfOne(Chain(inputs)[1], gen.yielded).entries
           /\ Len(written) = Len(gen.yielded)

\* the first file ends and the second starts at local timestamp 2: the
\* second batch of the event log holds the row of each
C40_Witness ==
    /\ compile = "ok" /\ Len(inputs[1]) = 2 /\ Len(inputs[2]) = 1
    /\ inputs[1][2].local_timestamp_us = inputs[2][1].local_timestamp_us
    /\ Len(written) = 2
    /\ Len(written[2].updates) = 2

\* the second file starts before the local timestamp the first ended at
C40_WitnessDecrease ==
    /\ inputs[1] # <<>> /\ inputs[2] # <<>>
    /\ inputs[2][1].local_timestamp_us < inputs[1][Len(inputs[1])].local_timestamp_us
    /\ gen.raised = Some("OrderingError")
    /\ compile = "OrderingError"

====
